---- MODULE Spec2Model ----
(***************************************************************************)
(* Mail ingestion pipeline of the ingestion service:                       *)
(*   - IngestionService (syncMailbox, syncAllActiveMailboxes, ...)         *)
(*   - GmailConnector   (initializeWithCredentials, getRecentMessages)     *)
(*   - QueueService     (addJob, worker, processJob, retryFailedJob)       *)
(*   - the cron schedules and the routes that trigger them                 *)
(*                                                                         *)
(* Time is counted in ticks of 12 hours (DayTicks ticks per day).          *)
(***************************************************************************)
EXTENDS Integers, Sequences, FiniteSets, Bags, TLC

\* ------------------------------------------------------------------ bounds
\* last clock value the model lets the wall clock reach
MaxTime == 3
\* how many upserts of one processMessages / processThreads loop may throw
MaxUpsertFailures == 1

\* how many jobs are added to the queue
MaxJobs == 2
\* how often one job is retried by hand
MaxRetries == 1
\* how many mailboxes the bulk sync can find
NumMailboxes == 6
\* how many mailboxes lose their authorisation during the bulk syncs
MaxDeactivations == 1
MaxRuns == 2
MaxDay == 2
MaxAggFailures == 1
MaxCleanupDay == 32
MaxSample == 5
MaxQueued == 6
MaxWorkers == 2
MaxStopCalls == 2
MaxAggregations == 3
MaxBatch == 2
MaxSyncCalls == 2

\* ------------------------------------------------------- program constants
\* const concurrency = 5 of syncAllActiveMailboxes
concurrency == 5
\* attempts: options.attempts || 3 of addJob (and of defaultJobOptions)
DefaultAttempts == 3
\* backoff: {type: 'exponential', delay: 2000} of defaultJobOptions
BackoffDelay == 2000
\* concurrency: 5 of the Worker
WorkerConcurrency == 5
\* 24 * 60 * 60 * 1000 ms, in ticks of 12 hours
DayTicks == 2
\* getRecentMessages(30) of a full sync
FullSyncDays == 30
RetentionDays == 30
AggregateRetentionDays == 90
\* 12 hours in minutes (responseTime is stored in minutes)
MinutesPerTick == 720
\* the value null (lastSyncAt, responseTime, sentiment, category)
Null == -1
NoFraction == <<>>

\* ------------------------------------------------------------- identities
\* the ids a caller may pass; which of them carry a Mailbox row is state
MailboxIds == {"mb1", "mb2"}
\* an id no Mailbox row ever carries
MissingMailbox == "mb0"
OrgIds == {"org1", "org2"}
SyncTypes == {"incremental", "full"}

\* ------------------------------------------------------- strings as text
\* Error messages are kept as sequences of characters, so that
\* String.prototype.includes is computed, not assumed.
MsgMailboxNotFound ==
    <<"M","a","i","l","b","o","x"," ","n","o","t"," ","f","o","u","n","d">>
MsgGmailAuthFailed ==
    <<"G","m","a","i","l"," ","a","u","t","h","e","n","t","i","c","a","t","i","o","n",
      " ","f","a","i","l","e","d">>
MsgFailedToAdd ==
    <<"F","a","i","l","e","d"," ","t","o"," ","a","d","d"," ","G","m","a","i","l",
      " ","m","a","i","l","b","o","x">>
MsgCannotRead ==
    <<"C","a","n","n","o","t"," ","r","e","a","d"," ","p","r","o","p","e","r","t","i",
      "e","s"," ","o","f"," ","u","n","d","e","f","i","n","e","d">>
MsgNoRefreshToken ==
    <<"N","o"," ","r","e","f","r","e","s","h"," ","t","o","k","e","n"," ","i","s",
      " ","s","e","t",".">>
MsgRateLimit ==
    <<"R","a","t","e"," ","L","i","m","i","t"," ","E","x","c","e","e","d","e","d">>
MsgSocketHangUp ==
    <<"s","o","c","k","e","t"," ","h","a","n","g"," ","u","p">>
MsgTypeError ==
    <<"C","a","n","n","o","t"," ","r","e","a","d"," ","p","r","o","p","e",
      "r","t","i","e","s"," ","o","f"," ","u","n","d","e","f","i","n","e",
      "d"," ","(","r","e","a","d","i","n","g"," ","'","i","n","c","l","u",
      "d","e","s","'",")">>
StrAuth == <<"a","u","t","h">>
StrToken == <<"t","o","k","e","n">>

\* String.prototype.includes (case sensitive)
Includes(s, sub) ==
    \E i \in 1..(Len(s) - Len(sub) + 1) : SubSeq(s, i, i + Len(sub) - 1) = sub

\* An error: the message the Error object carries, and what made the provider
\* or the store fail (the cause is not visible to the code).
NoError == [message |-> <<>>, cause |-> "none"]
MkError(msg, cause) == [message |-> msg, cause |-> cause]

\* what a provider call can fail with (googleapis rethrown as is)
ProviderErrors ==
    { MkError(MsgNoRefreshToken, "auth"),
      MkError(MsgRateLimit, "rate_limit"),
      MkError(MsgSocketHangUp, "network") }
ProviderCauses == {"auth", "rate_limit", "network"}

\* what parseGmailMessage throws on a message resource without labelIds
MalformedError == MkError(MsgTypeError, "malformed")

\* ------------------------------------------------------------- provider
\* The messages the provider can hold: id, thread and labels are fixed per
\* message; internalDate is the clock value at delivery.
GmailCatalog ==
    { [id |-> "m1", threadId |-> "t1", labelIds |-> {"INBOX", "UNREAD"}],
      [id |-> "m2", threadId |-> "t1", labelIds |-> {"SENT"}] }
\* what each account can receive: both accounts can hold a message "m1"
Deliverable(mb) ==
    IF mb = "mb1" THEN GmailCatalog ELSE {g \in GmailCatalog : g.id = "m1"}

VARIABLES
    now,          \* wall clock (Date.now()), in ticks
    mailbox,      \* Storage: Mailbox rows, by id
    inbox,        \* provider: the GmailMessages of each mailbox's account
    messageRows,  \* Storage: Message rows (a bag: duplicates would show)
    threadRows,   \* Storage: Thread rows (a bag)
    connectors,   \* IngestionService.gmailConnectors (mailbox ids cached)
    call,         \* the syncMailbox execution in flight, then what its caller got
    idem,         \* history: the last two successive syncs of one mailbox
    fetched       \* history: the provider ids getRecentMessages returned, by mailbox

syncVars == <<now, mailbox, inbox, messageRows, threadRows, connectors, call, idem, fetched>>

\* the bulk sync and its triggers (cron schedules, routes)
VARIABLES
    active,       \* Storage: isActive of the mailboxes the bulk sync lists
    run,          \* the syncAllActiveMailboxes executions, by trigger
    exec          \* the syncMailbox executions in flight: [owner, mailboxId]

bulkVars == <<active, run, exec>>

\* the job queue
VARIABLES
    jobs,         \* the jobs of the 'ingestion' queue, by id
    waitq,        \* the ids of the waiting jobs, in the order they are taken
    worker,       \* the QueueService's worker: isWorkerStarted
    lastOp,       \* the QueueService call just made, if the last step was one
    workers,      \* the Worker objects the QueueService has created, oldest first
    stopping      \* the stopWorker calls awaiting this.worker.close()

queueVars == <<jobs, waitq, worker, lastOp, workers, stopping>>

\* the aggregation engine of the analytics API, its Storage and its Cache
VARIABLES
    process,      \* the analytics API process: "starting", "running", "exited"
    timer,        \* AggregationService.intervalId is set
    today,        \* startOfDay(new Date()), in days
    userOf,       \* Storage: userId of each mailbox
    runs,         \* the runHourlyAggregations executions, in the order started
    aggregates,   \* Storage: the AnalyticsAggregate rows (a bag)
    contacts,     \* Storage: the Contact rows, by id
    version,      \* how many times aggregates of an organization were written
    cache,        \* Cache: the entries under 'analytics:', key -> version read
    reader        \* the getOverviewAnalytics call in progress

aggVars == <<process, timer, today, userOf, runs, aggregates, contacts, version,
             cache, reader>>

\* the ingestion service process and the calls made to it
VARIABLES
    env,          \* process.env: which variables are set
    server,       \* the ingestion process: "starting", "listening", "exited"
    request,      \* the IngestionService call just made and what its caller got
    uses          \* history: decryptions and Connector initializations, by mailbox

serviceVars == <<env, server, request, uses>>

vars == <<syncVars, bulkVars, queueVars, aggVars, serviceVars>>

\* ------------------------------------------------- GmailConnector (pure)
\* (mutant) a parser that takes every message not sent for unread
parseGmailMessageReadIfSent(g) ==
    [ messageId |-> g.id,
      threadId  |-> g.threadId,
      timestamp |-> g.internalDate,
      isRead    |-> "SENT" \in g.labelIds,
      isSent    |-> "SENT" \in g.labelIds,
      labels    |-> g.labelIds,
      sentiment |-> Null,
      priority  |-> "medium",
      category  |-> Null ]

\* parseGmailMessage: the canonical EmailMessage of a GmailMessage
parseGmailMessage(g) ==
    [ messageId |-> g.id,
      threadId  |-> g.threadId,
      timestamp |-> g.internalDate,
      isRead    |-> ~("UNREAD" \in g.labelIds),
      isSent    |-> "SENT" \in g.labelIds,
      labels    |-> g.labelIds,
      sentiment |-> Null,
      priority  |-> "medium",
      category  |-> Null ]

\* users.messages.list: newest first
RECURSIVE NewestFirst(_)
NewestFirst(S) ==
    IF S = {} THEN <<>>
    ELSE LET g == CHOOSE x \in S : \A y \in S : y.internalDate <= x.internalDate
         IN  <<g>> \o NewestFirst(S \ {g})

\* gmailMessage.labelIds.includes(...) has something to read
Parses(g) == "labelIds" \in DOMAIN g

\* the messages the query of getRecentMessages lists
Queried(box, cutoff) == {g \in box : g.internalDate >= cutoff}

\* the query `after:<cutoff>` of getRecentMessages, cutoff = now - days
Cutoff(t, days) == t - days * DayTicks

\* getRecentMessages on a provider that answers
getRecentMessages(box, cutoff) ==
    LET hits == {g \in box : g.internalDate >= cutoff}
        listed == NewestFirst(hits)
    IN  [i \in 1..Len(listed) |-> parseGmailMessage(listed[i])]

\* ------------------------------------------------ IngestionService (pure)
\* Math.ceil(a / b) for a >= 0, b > 0
CeilDiv(a, b) == (a + b - 1) \div b

Max(a, b) == IF a >= b THEN a ELSE b

\* the window with Math.floor in the place of Math.ceil
WindowDaysFloor(syncType, lastSyncAt, t) ==
    IF syncType = "full" THEN FullSyncDays
    ELSE LET lastSync == IF lastSyncAt = Null THEN t - DayTicks ELSE lastSyncAt
         IN  Max((t - lastSync) \div DayTicks, 1)

\* the days syncMailbox asks the Connector for
WindowDays(syncType, lastSyncAt, t) ==
    IF syncType = "full" THEN FullSyncDays
    ELSE LET lastSync == IF lastSyncAt = Null THEN t - DayTicks ELSE lastSyncAt
         IN  Max(CeilDiv(t - lastSync, DayTicks), 1)

\* the catch block's test: error.message includes 'auth' or 'token'
IsAuthError(err) ==
    Includes(err.message, StrAuth) \/ Includes(err.message, StrToken)

\* rows of a bag with a given key
MessageHits(rows, messageId, org) ==
    {r \in BagToSet(rows) : r.messageId = messageId /\ r.organizationId = org}

\* (mutant) create instead of upsert
UpsertMessageCreateOnly(rows, mb, org, m) ==
    rows (+) SetToBag({[ messageId |-> m.messageId,
                         organizationId |-> org,
                         threadId |-> m.threadId,
                         timestamp |-> m.timestamp,
                         isRead |-> m.isRead,
                         isSent |-> m.isSent,
                         labels |-> m.labels,
                         sentiment |-> m.sentiment,
                         priority |-> m.priority,
                         category |-> m.category,
                         mailboxId |-> mb ]})

\* prisma.message.upsert keyed by messageId_organizationId
UpsertMessage(rows, mb, org, m) ==
    LET hit == MessageHits(rows, m.messageId, org)
    IN  IF hit # {}
        THEN LET old == CHOOSE r \in hit : TRUE
                 \* an undefined value leaves the column as it is
                 new == [old EXCEPT !.timestamp = m.timestamp,
                                    !.isRead = m.isRead,
                                    !.isSent = m.isSent,
                                    !.labels = m.labels,
                                    !.sentiment = IF m.sentiment = Null THEN @ ELSE m.sentiment,
                                    !.priority = m.priority,
                                    !.category = IF m.category = Null THEN @ ELSE m.category]
             IN  (rows (-) SetToBag({old})) (+) SetToBag({new})
        ELSE rows (+) SetToBag({[ messageId |-> m.messageId,
                                  organizationId |-> org,
                                  threadId |-> m.threadId,
                                  timestamp |-> m.timestamp,
                                  isRead |-> m.isRead,
                                  isSent |-> m.isSent,
                                  labels |-> m.labels,
                                  sentiment |-> m.sentiment,
                                  priority |-> m.priority,
                                  category |-> m.category,
                                  mailboxId |-> mb ]})

\* the loop without its try/catch: the first throwing upsert ends it
RECURSIVE UpsertMessagesAborting(_, _, _, _, _, _)
UpsertMessagesAborting(rows, mb, org, msgs, i, fail) ==
    IF i > Len(msgs) \/ i \in fail THEN rows
    ELSE UpsertMessagesAborting(UpsertMessage(rows, mb, org, msgs[i]),
                                mb, org, msgs, i + 1, fail)

\* the for loop of processMessages; the upserts at the indexes in `fail` throw
RECURSIVE UpsertMessages(_, _, _, _, _, _)
UpsertMessages(rows, mb, org, msgs, i, fail) ==
    IF i > Len(msgs) THEN rows
    ELSE UpsertMessages(IF i \in fail THEN rows ELSE UpsertMessage(rows, mb, org, msgs[i]),
                        mb, org, msgs, i + 1, fail)

\* Array.prototype.sort by timestamp ascending (stable)
SortedInsert(sorted, m) ==
    LET k == Cardinality({i \in 1..Len(sorted) : sorted[i].timestamp <= m.timestamp})
    IN  SubSeq(sorted, 1, k) \o <<m>> \o SubSeq(sorted, k + 1, Len(sorted))

\* the group left in the order the Connector returned it
SortByTimestampNot(s) == s

RECURSIVE SortByTimestamp(_)
SortByTimestamp(s) ==
    IF s = <<>> THEN <<>>
    ELSE SortedInsert(SortByTimestamp(SubSeq(s, 1, Len(s) - 1)), s[Len(s)])

\* threadMap: the thread ids of the fetched messages, and each one's group
ThreadIdsOf(msgs) == {msgs[i].threadId : i \in 1..Len(msgs)}

RECURSIVE ThreadGroup(_, _)
ThreadGroup(msgs, tid) ==
    IF msgs = <<>> THEN <<>>
    ELSE (IF msgs[1].threadId = tid THEN <<msgs[1]>> ELSE <<>>)
         \o ThreadGroup(SubSeq(msgs, 2, Len(msgs)), tid)

\* the rule applied to the first message of the group
isThreadResolvedOfFirst(group, t) ==
    group[1].isSent /\ (t - group[1].timestamp) > DayTicks

\* isThreadResolved on the (sorted in place) group
isThreadResolved(group, t) ==
    LET lastMessage == group[Len(group)]
    IN  lastMessage.isSent /\ (t - lastMessage.timestamp) > DayTicks

\* the fields processThreads derives from one group
ThreadFields(group, t) ==
    LET sortedMessages == SortByTimestamp(group)
        firstMessage == sortedMessages[1]
        lastMessage == sortedMessages[Len(sortedMessages)]
    IN  [ messageCount |-> Len(sortedMessages),
          lastMessageAt |-> lastMessage.timestamp,
          responseTime |-> IF Len(sortedMessages) > 1
                           THEN (lastMessage.timestamp - firstMessage.timestamp) * MinutesPerTick
                           ELSE Null,
          isResolved |-> isThreadResolved(sortedMessages, t) ]

ThreadHits(rows, threadId, org) ==
    {r \in BagToSet(rows) : r.threadId = threadId /\ r.organizationId = org}

\* prisma.thread.upsert keyed by threadId_organizationId
UpsertThread(rows, mb, org, tid, f) ==
    LET hit == ThreadHits(rows, tid, org)
    IN  IF hit # {}
        THEN LET old == CHOOSE r \in hit : TRUE
                 new == [old EXCEPT !.messageCount = f.messageCount,
                                    !.lastMessageAt = f.lastMessageAt,
                                    !.responseTime = f.responseTime,
                                    !.isResolved = f.isResolved]
             IN  (rows (-) SetToBag({old})) (+) SetToBag({new})
        ELSE rows (+) SetToBag({[ threadId |-> tid,
                                  organizationId |-> org,
                                  messageCount |-> f.messageCount,
                                  lastMessageAt |-> f.lastMessageAt,
                                  responseTime |-> f.responseTime,
                                  isResolved |-> f.isResolved,
                                  mailboxId |-> mb ]})

\* the for loop of processThreads over the threads in `todo`
RECURSIVE UpsertThreads(_, _, _, _, _, _)
UpsertThreads(rows, mb, org, msgs, todo, t) ==
    IF todo = {} THEN rows
    ELSE LET tid == CHOOSE x \in todo : TRUE
         IN  UpsertThreads(UpsertThread(rows, mb, org, tid, ThreadFields(ThreadGroup(msgs, tid), t)),
                           mb, org, msgs, todo \ {tid}, t)

\* -------------------------------------------------- syncMailbox, by steps
\* One syncMailbox execution takes two steps: SyncStart runs it up to the
\* answer of the provider's listing, SyncProcess runs both upsert loops and
\* the lastSyncAt update.  `call` keeps the execution in flight, and then
\* what its caller got.
IdleCall ==
    [ pc |-> "idle", mailboxId |-> MissingMailbox, syncType |-> "incremental",
      days |-> 0, messages |-> <<>>, messagesProcessed |-> 0, threadsProcessed |-> 0,
      failures |-> 0, outcome |-> "none", error |-> NoError, deactivated |-> FALSE,
      fresh |-> TRUE, startedAt |-> 0, failed |-> {}, failedThreads |-> {} ]

NoRun == [ mode |-> "none", startedAt |-> Null, at |-> Null, messagesProcessed |-> 0,
           failures |-> 0, threads |-> {} ]
\* history off (the specification does not keep it) / on and empty
HistoryOff == [ on |-> FALSE, n |-> 0, mailboxId |-> MissingMailbox,
                first |-> NoRun, second |-> NoRun ]
NoHistory == [HistoryOff EXCEPT !.on = TRUE]

\* the Thread columns the history keeps, for one organization
ThreadView(rows, org) ==
    { [ threadId |-> r.threadId, messageCount |-> r.messageCount,
        lastMessageAt |-> r.lastMessageAt, responseTime |-> r.responseTime,
        isResolved |-> r.isResolved, copies |-> CopiesIn(r, rows) ]
      : r \in {x \in BagToSet(rows) : x.organizationId = org} }

\* anything but a successful sync of the same mailbox ends a succession
Disturbed == IF idem.on THEN NoHistory ELSE idem

\* a successful sync of mb ended with the result `done`; the provider got
\* nothing new while it ran iff `fresh`
Succeeded(mb, done, fresh) ==
    IF ~idem.on THEN idem
    ELSE IF ~fresh THEN NoHistory
    ELSE IF idem.n = 0 \/ idem.mailboxId # mb
         THEN [NoHistory EXCEPT !.n = 1, !.mailboxId = mb, !.first = done]
    ELSE IF idem.n = 1 THEN [idem EXCEPT !.n = 2, !.second = done]
    ELSE [idem EXCEPT !.first = idem.second, !.second = done]

\* the catch block's test on the error it caught
CatchDeactivates(err) == IsAuthError(err)

\* (mutant) a catch block that rethrows without touching the mailbox
CatchBlockRethrowOnly(boxes, mb, err) == boxes

\* the catch block of syncMailbox: the Mailbox rows it leaves
CatchBlock(boxes, mb, err) ==
    IF CatchDeactivates(err) /\ mb \in DOMAIN boxes
    THEN [boxes EXCEPT ![mb].isActive = FALSE]
    ELSE boxes

\* a catch block that ends by returning the zero result
RethrowNot(started, err, deact) ==
    [started EXCEPT !.pc = "done", !.outcome = "returned", !.deactivated = deact]

\* ... and what it hands to the caller: `throw error`
Rethrow(started, err, deact) ==
    [started EXCEPT !.pc = "done", !.outcome = "thrown", !.error = err,
                    !.deactivated = deact]

\* the try block of call c raised `err`: run the catch block
Raise(started, mb, err) ==
    /\ mailbox' = CatchBlock(mailbox, mb, err)
    /\ call' = Rethrow(started, err, mailbox' # mailbox)
    /\ idem' = Disturbed

\* initializeWithCredentials: the error it throws when its provider call fails
InitError(cause) == MkError(MsgGmailAuthFailed, cause)

\* syncMailbox(mb, syncType) up to the provider's answer: load the mailbox,
\* return early when inactive, get or create the connector, choose the
\* window, list
\* the guard missing its return: the execution goes on to the processing
SkippedNot(started) == [started EXCEPT !.pc = "process"]

\* return { messagesProcessed: 0, threadsProcessed: 0 } of the inactive guard
Skipped(started) == [started EXCEPT !.pc = "done", !.outcome = "returned"]

SyncStart(mb, syncType) ==
    /\ call.pc = "idle"
    /\ LET started == [IdleCall EXCEPT !.mailboxId = mb, !.syncType = syncType]
       IN
       \/ \* Mailbox not found
          /\ mb \notin DOMAIN mailbox
          /\ Raise(started, mb, MkError(MsgMailboxNotFound, "not_found"))
          /\ UNCHANGED connectors
       \/ \* inactive: zero result, no connector
          /\ mb \in DOMAIN mailbox /\ ~mailbox[mb].isActive
          /\ call' = Skipped(started)
          /\ idem' = Disturbed
          /\ UNCHANGED <<mailbox, connectors>>
       \/ \* no connector cached and initializeWithCredentials fails
          /\ mb \in DOMAIN mailbox /\ mailbox[mb].isActive /\ mb \notin connectors
          /\ \E cause \in ProviderCauses : Raise(started, mb, InitError(cause))
          /\ UNCHANGED connectors
       \/ \* connector cached or initialized
          /\ mb \in DOMAIN mailbox /\ mailbox[mb].isActive
          /\ connectors' = connectors \cup {mb}
          /\ LET days == WindowDays(syncType, mailbox[mb].lastSyncAt, now)
             IN  \/ \* the provider answers the listing
                    /\ \A g \in Queried(inbox[mb], Cutoff(now, days)) : Parses(g)
                    /\ call' = [started EXCEPT
                                  !.pc = "process", !.days = days, !.startedAt = now,
                                  !.messages = getRecentMessages(inbox[mb], Cutoff(now, days))]
                    /\ UNCHANGED <<mailbox, idem>>
                 \/ \* getRecentMessages rethrows the provider's error
                    \E err \in ProviderErrors :
                      Raise([started EXCEPT !.days = days], mb, err)
                 \/ \* gmailMessages.map(parseGmailMessage) throws
                    /\ \E g \in Queried(inbox[mb], Cutoff(now, days)) : ~Parses(g)
                    /\ Raise([started EXCEPT !.days = days], mb, MalformedError)
    /\ fetched' = IF call'.pc = "process"
                  THEN [fetched EXCEPT ![mb] = @ \cup
                          {call'.messages[i].messageId : i \in DOMAIN call'.messages}]
                  ELSE fetched
    /\ UNCHANGED <<now, inbox, messageRows, threadRows, bulkVars, queueVars, serviceVars, aggVars>>

\* the time of the listing written in the place of new Date()
NewLastSyncAtOfStart(t) == call.startedAt

\* the lastSyncAt a successful run writes
NewLastSyncAt(t) == t

\* processMessages, processThreads, the lastSyncAt update and the return.
\* A throwing upsert is logged and skipped by its loop.
SyncProcess ==
    /\ call.pc = "process"
    /\ LET mb == call.mailboxId
           org == mailbox[mb].organizationId
           msgs == call.messages
           tids == ThreadIdsOf(msgs)
       IN  \E failM \in SUBSET (1..Len(msgs)), failT \in SUBSET tids :
             /\ Cardinality(failM) <= MaxUpsertFailures
             /\ Cardinality(failT) <= MaxUpsertFailures
             /\ messageRows' = UpsertMessages(messageRows, mb, org, msgs, 1, failM)
             /\ threadRows' = UpsertThreads(threadRows, mb, org, msgs, tids \ failT, now)
             /\ mailbox' = [mailbox EXCEPT ![mb].lastSyncAt = NewLastSyncAt(now)]
             /\ call' = [call EXCEPT
                           !.pc = "done", !.outcome = "returned", !.messages = <<>>,
                           !.fresh = TRUE, !.startedAt = 0,
                           !.messagesProcessed = Len(msgs) - Cardinality(failM),
                           !.threadsProcessed = Cardinality(tids \ failT),
                           !.failures = Cardinality(failM) + Cardinality(failT),
                           !.failed = {msgs[i].messageId : i \in failM},
                           !.failedThreads = failT]
             /\ idem' = Succeeded(mb,
                          [ mode |-> call.syncType, startedAt |-> call.startedAt,
                            at |-> now,
                            messagesProcessed |-> Len(msgs) - Cardinality(failM),
                            failures |-> Cardinality(failM) + Cardinality(failT),
                            threads |-> ThreadView(threadRows', org) ],
                          call.fresh)
    /\ UNCHANGED <<now, inbox, connectors, fetched, bulkVars, queueVars, serviceVars, aggVars>>

\* the caller has the result or the error of its call
SyncReturn ==
    /\ call.pc = "done"
    /\ call' = IdleCall
    /\ UNCHANGED <<now, mailbox, inbox, messageRows, threadRows, connectors, idem,
                   fetched, bulkVars, queueVars, serviceVars, aggVars>>

\* the provider receives a message for the account of mailbox mb
ProviderDeliver(mb, g) ==
    /\ call.pc # "done"
    /\ mb \in DOMAIN inbox
    /\ g \in Deliverable(mb)
    /\ \A h \in inbox[mb] : h.id # g.id
    /\ inbox' = [inbox EXCEPT ![mb] = @ \cup
                   {[id |-> g.id, threadId |-> g.threadId, labelIds |-> g.labelIds,
                     internalDate |-> now]}]
    /\ idem' = Disturbed
    /\ call' = IF call.pc = "process" /\ call.mailboxId = mb /\ idem.on
               THEN [call EXCEPT !.fresh = FALSE] ELSE call
    /\ UNCHANGED <<now, mailbox, messageRows, threadRows, connectors, fetched,
                   bulkVars, queueVars, serviceVars, aggVars>>

\* the wall clock advances
Tick ==
    /\ call.pc # "done"
    /\ now < MaxTime
    /\ now' = now + 1
    /\ UNCHANGED <<mailbox, inbox, messageRows, threadRows, connectors, call, idem,
                   fetched, bulkVars, queueVars, serviceVars, aggVars>>

\* --------------------------------------------- specification of the sync
\* the parts of the state a specification does not move
BulkIdle ==
    /\ active = <<>>
    /\ run = <<>>
    /\ exec = {}

QueueIdle ==
    /\ jobs = <<>>
    /\ waitq = <<>>
    /\ worker = FALSE
    /\ lastOp = <<>>
    /\ workers = <<>>
    /\ stopping = 0

NoRequest == [op |-> "none", mailboxId |-> "", outcome |-> "none", error |-> NoError]

ServiceIdle ==
    /\ env = [required |-> TRUE, ENCRYPTION_KEY |-> "valid"]
    /\ server = "starting"
    /\ request = NoRequest
    /\ uses = <<>>

AggIdle ==
    /\ process = "starting"
    /\ timer = FALSE
    /\ today = 0
    /\ userOf = <<>>
    /\ runs = <<>>
    /\ aggregates = EmptyBag
    /\ contacts = <<>>
    /\ version = 0
    /\ cache = <<>>
    /\ reader = <<>>

\* One mailbox, created at time 0 (addMailbox sets lastSyncAt: new Date()),
\* followed over time; the history of its successive syncs is kept.
InitSync ==
    /\ now = 0
    /\ mailbox = [mb \in {"mb1"} |->
                    [isActive |-> TRUE, lastSyncAt |-> 0, organizationId |-> "org1"]]
    /\ inbox = [mb \in {"mb1"} |-> {}]
    /\ messageRows = EmptyBag
    /\ threadRows = EmptyBag
    /\ connectors = {}
    /\ call = IdleCall
    /\ idem = NoHistory
    /\ fetched = [mb \in {"mb1"} |-> {}]
    /\ BulkIdle
    /\ QueueIdle
    /\ ServiceIdle
    /\ AggIdle

NextSync ==
    \/ \E mb \in MailboxIds \cup {MissingMailbox}, t \in SyncTypes : SyncStart(mb, t)
    \/ SyncProcess
    \/ SyncReturn
    \/ \E mb \in MailboxIds, g \in GmailCatalog : ProviderDeliver(mb, g)
    \/ Tick

SpecSync == InitSync /\ [][NextSync]_vars

\* One mailbox whose row has a lastSyncAt or has none (the column is read
\* with a fallback), followed over time.
InitWindow ==
    /\ now = 0
    /\ \E last \in {Null, 0} :
         mailbox = [mb \in {"mb1"} |->
                      [isActive |-> TRUE, lastSyncAt |-> last, organizationId |-> "org1"]]
    /\ inbox = [mb \in {"mb1"} |-> {}]
    /\ messageRows = EmptyBag
    /\ threadRows = EmptyBag
    /\ connectors = {}
    /\ call = IdleCall
    /\ idem = HistoryOff
    /\ fetched = [mb \in {"mb1"} |-> {}]
    /\ BulkIdle
    /\ QueueIdle
    /\ ServiceIdle
    /\ AggIdle

SpecWindow == InitWindow /\ [][NextSync]_vars

\* the provider receives, for the account of mailbox mb, a message that has
\* no label: its resource comes without labelIds
ProviderDeliverUnlabelled(mb) ==
    /\ call.pc # "done"
    /\ mb \in DOMAIN inbox
    /\ \A h \in inbox[mb] : h.id # "m3"
    /\ inbox' = [inbox EXCEPT ![mb] = @ \cup
                   {[id |-> "m3", threadId |-> "t1", internalDate |-> now]}]
    /\ idem' = Disturbed
    /\ UNCHANGED <<now, mailbox, messageRows, threadRows, connectors, call, fetched,
                   bulkVars, queueVars, serviceVars, aggVars>>

NextMalformed ==
    \/ NextSync
    \/ \E mb \in MailboxIds : ProviderDeliverUnlabelled(mb)

SpecMalformed == InitWindow /\ [][NextMalformed]_vars

\* the owner of the account of mailbox mb reads a message: the provider
\* drops its UNREAD label
ProviderRelabel(mb, id) ==
    /\ call.pc # "done"
    /\ mb \in DOMAIN inbox
    /\ \E g \in inbox[mb] :
         /\ g.id = id
         /\ "UNREAD" \in g.labelIds
         /\ inbox' = [inbox EXCEPT ![mb] =
                        (@ \ {g}) \cup {[g EXCEPT !.labelIds = @ \ {"UNREAD"}]}]
    /\ idem' = Disturbed
    /\ UNCHANGED <<now, mailbox, messageRows, threadRows, connectors, call, fetched,
                   bulkVars, queueVars, serviceVars, aggVars>>

\* what an enrichment pass stores on a Message row
Enrichment == [sentiment |-> 1, priority |-> "high", category |-> "support"]

\* a later pass adds sentiment, priority and category to a stored message
EnrichMessage(id) ==
    /\ call.pc # "done"
    /\ \E r \in BagToSet(messageRows) :
         /\ r.messageId = id
         /\ r.sentiment = Null
         /\ messageRows' = (messageRows (-) SetToBag({r})) (+)
                SetToBag({[r EXCEPT !.sentiment = Enrichment.sentiment,
                                    !.priority = Enrichment.priority,
                                    !.category = Enrichment.category]})
    /\ UNCHANGED <<now, mailbox, inbox, threadRows, connectors, call, idem, fetched,
                   bulkVars, queueVars, serviceVars, aggVars>>

NextRefetch ==
    \/ NextSync
    \/ \E mb \in MailboxIds, g \in GmailCatalog : ProviderRelabel(mb, g.id)
    \/ \E g \in GmailCatalog : EnrichMessage(g.id)

SpecRefetch == InitWindow /\ [][NextRefetch]_vars

\* A batch of up to MaxBatch provider messages with every label set over
\* three labels, in one thread or in two; a message without any label comes
\* without labelIds.
LabelIds == {"INBOX", "UNREAD", "SENT"}
Unlabelled == {"none"}

BatchMessage(k, labels, thread) ==
    IF labels = Unlabelled
    THEN [id |-> k, threadId |-> thread, internalDate |-> 0]
    ELSE [id |-> k, threadId |-> thread, internalDate |-> 0, labelIds |-> labels]

InitParse ==
    /\ now = 0
    /\ mailbox = [mb \in {"mb1"} |->
                    [isActive |-> TRUE, lastSyncAt |-> 0, organizationId |-> "org1"]]
    /\ \E n \in 1..MaxBatch :
         \E labels \in [1..n -> (SUBSET LabelIds) \cup {Unlabelled}],
            thread \in [1..n -> {"t1", "t2"}] :
            /\ \A k \in 1..n : k > 1 => thread[k - 1] = "t1"
            /\ inbox = [mb \in {"mb1"} |->
                          {BatchMessage(k, labels[k], thread[k]) : k \in 1..n}]
    /\ messageRows = EmptyBag
    /\ threadRows = EmptyBag
    /\ connectors = {}
    /\ call = IdleCall
    /\ idem = HistoryOff
    /\ fetched = [mb \in {"mb1"} |-> {}]
    /\ BulkIdle
    /\ QueueIdle
    /\ ServiceIdle
    /\ AggIdle

NextParse ==
    \/ \E mb \in {"mb1"}, t \in SyncTypes : SyncStart(mb, t)
    \/ SyncProcess
    \/ SyncReturn

SpecParse == InitParse /\ [][NextParse]_vars

\* Two mailboxes at one instant, in one organization or in two: their
\* accounts can hold a message of the same provider id.
InitOrgs ==
    /\ now = 0
    /\ \E org2 \in OrgIds :
         mailbox = [mb \in MailboxIds |->
                      [ isActive |-> TRUE, lastSyncAt |-> 0,
                        organizationId |-> IF mb = "mb1" THEN "org1" ELSE org2 ]]
    /\ inbox = [mb \in MailboxIds |-> {}]
    /\ messageRows = EmptyBag
    /\ threadRows = EmptyBag
    /\ connectors = {}
    /\ call = IdleCall
    /\ idem = HistoryOff
    /\ fetched = [mb \in MailboxIds |-> {}]
    /\ BulkIdle
    /\ QueueIdle
    /\ ServiceIdle
    /\ AggIdle

NextOrgs ==
    \/ \E mb \in MailboxIds \cup {MissingMailbox}, t \in SyncTypes : SyncStart(mb, t)
    \/ SyncProcess
    \/ SyncReturn
    \/ \E mb \in MailboxIds, g \in GmailCatalog : ProviderDeliver(mb, g)

SpecOrgs == InitOrgs /\ [][NextOrgs]_vars

\* ------------------------------------------ syncAllActiveMailboxes
\* The bulk sync sees syncMailbox from outside: an execution is in flight
\* from its call to its settling, it returns or throws, and an
\* auth-classified throw has deactivated the mailbox.
BulkMailboxes == 1..NumMailboxes
Triggers == {"hourly", "sixhourly"}
SyncOutcomes == {"returned", "thrown", "thrown_auth"}
\* the mailboxes a client asks the sync route for
DirectTargets == {1}

IdleRun ==
    [ phase |-> "idle", syncType |-> "incremental", list |-> <<>>, i |-> 0,
      outcome |-> "none", invoked |-> [m \in BulkMailboxes |-> 0],
      batches |-> 0, delays |-> 0, firstFailed |-> FALSE ]

\* prisma.mailbox.findMany({where: {isActive: true}}): ids in table order
RECURSIVE ActiveList(_, _)
ActiveList(act, m) ==
    IF m > NumMailboxes THEN <<>>
    ELSE (IF act[m] THEN <<m>> ELSE <<>>) \o ActiveList(act, m + 1)

Min(a, b) == IF a <= b THEN a ELSE b

\* (mutant) a batch that takes every remaining mailbox
BatchOfTheRest(list, i) == {list[k] : k \in (i + 1)..Len(list)}

\* activeMailboxes.slice(i, i + concurrency), as the set of its ids
BatchOf(list, i) == {list[k] : k \in (i + 1)..Min(i + concurrency, Len(list))}

ExecsOf(owner) == {x \in exec : x.owner = owner}

\* batch.map(...): syncMailbox is called for every member of the batch
StartBatch(r, rec) ==
    LET batch == BatchOf(rec.list, rec.i)
    IN  /\ exec' = exec \cup {[owner |-> r, mailboxId |-> m] : m \in batch}
        /\ run' = [run EXCEPT ![r] =
                     [rec EXCEPT !.phase = "batch", !.batches = @ + 1,
                                 !.invoked = [m \in BulkMailboxes |->
                                                IF m \in batch THEN @[m] + 1 ELSE @[m]]]]

\* node-cron fires: '0 * * * *' every hour, '0 */6 * * *' with it every
\* sixth hour.  Each callback calls syncAllActiveMailboxes, which runs up to
\* its findMany.
CronTick(six) ==
    /\ run["hourly"].phase \in {"idle", "done"}
    /\ six => run["sixhourly"].phase \in {"idle", "done"}
    /\ run' = [r \in Triggers |->
                 IF r = "hourly"
                 THEN [IdleRun EXCEPT !.phase = "listing", !.syncType = "incremental"]
                 ELSE IF six
                 THEN [IdleRun EXCEPT !.phase = "listing", !.syncType = "full"]
                 ELSE run[r]]
    /\ UNCHANGED <<active, exec, syncVars, queueVars, serviceVars, aggVars>>

\* findMany answers: the loop starts with the first batch, or there is
\* nothing to do
ListMailboxes(r) ==
    /\ run[r].phase = "listing"
    /\ LET rec == [run[r] EXCEPT !.list = ActiveList(active, 1)]
       IN  IF rec.list = <<>>
           THEN /\ run' = [run EXCEPT ![r] =
                             [rec EXCEPT !.phase = "done", !.outcome = "returned"]]
                /\ UNCHANGED exec
           ELSE StartBatch(r, rec)
    /\ UNCHANGED <<active, syncVars, queueVars, serviceVars, aggVars>>

\* (mutant) a batch callback without its try/catch under Promise.all: the
\* first failing member ends the bulk call with that member's error
MemberSettledAborting(rec, m, outcome) ==
    IF outcome = "returned" THEN rec
    ELSE [rec EXCEPT !.phase = "done", !.outcome = "thrown",
                     !.firstFailed = @ \/ m = rec.list[1]]

\* the callback of batch.map: a throwing syncMailbox is logged, the promise
\* of the member fulfils either way
MemberSettled(rec, m, outcome) ==
    [rec EXCEPT !.firstFailed = @ \/ (outcome # "returned" /\ m = rec.list[1])]

\* one syncMailbox execution settles
SyncSettle(x, outcome) ==
    /\ x \in exec
    /\ outcome = "thrown_auth" =>
           \/ ~active[x.mailboxId]
           \/ Cardinality({m \in BulkMailboxes : ~active[m]}) < MaxDeactivations
    /\ exec' = exec \ {x}
    /\ active' = IF outcome = "thrown_auth"
                 THEN [active EXCEPT ![x.mailboxId] = FALSE] ELSE active
    /\ run' = IF x.owner \in Triggers
              THEN [run EXCEPT ![x.owner] = MemberSettled(@, x.mailboxId, outcome)]
              ELSE run
    /\ UNCHANGED <<syncVars, queueVars, serviceVars, aggVars>>

\* Promise.allSettled has resolved: delay before the next batch, or the end
AfterBatch(r) ==
    /\ run[r].phase = "batch"
    /\ ExecsOf(r) = {}
    /\ run' = [run EXCEPT ![r] =
                 IF @.i + concurrency < Len(@.list)
                 THEN [@ EXCEPT !.phase = "delay"]
                 ELSE [@ EXCEPT !.phase = "done", !.outcome = "returned"]]
    /\ UNCHANGED <<active, exec, syncVars, queueVars, serviceVars, aggVars>>

\* the setTimeout of 1000 ms elapsed: i += concurrency, next batch
DelayElapsed(r) ==
    /\ run[r].phase = "delay"
    /\ StartBatch(r, [run[r] EXCEPT !.i = @ + concurrency, !.delays = @ + 1])
    /\ UNCHANGED <<active, syncVars, queueVars, serviceVars, aggVars>>

\* POST /mailboxes/:mailboxId/sync calls syncMailbox directly
DirectSync(m) ==
    /\ ExecsOf("direct") = {}
    /\ exec' = exec \cup {[owner |-> "direct", mailboxId |-> m]}
    /\ UNCHANGED <<active, run, syncVars, queueVars, serviceVars, aggVars>>

SyncIdle ==
    /\ now = 0
    /\ mailbox = <<>>
    /\ inbox = <<>>
    /\ messageRows = EmptyBag
    /\ threadRows = EmptyBag
    /\ connectors = {}
    /\ call = IdleCall
    /\ idem = HistoryOff
    /\ fetched = <<>>

InitBulk ==
    /\ active = [m \in BulkMailboxes |-> TRUE]
    /\ run = [r \in Triggers |-> IdleRun]
    /\ exec = {}
    /\ SyncIdle
    /\ QueueIdle
    /\ ServiceIdle
    /\ AggIdle

NextBulk ==
    \/ \E six \in BOOLEAN : CronTick(six)
    \/ \E r \in Triggers : ListMailboxes(r)
    \/ \E x \in exec, o \in SyncOutcomes : SyncSettle(x, o)
    \/ \E r \in Triggers : AfterBatch(r)
    \/ \E r \in Triggers : DelayElapsed(r)
    \/ \E m \in DirectTargets : DirectSync(m)

SpecBulk == InitBulk /\ [][NextBulk]_vars

\* ------------------------------------------------------- QueueService
JobTypes == {"backfill", "sync", "refresh_token"}
Undefined == "undefined"
\* (mutant) numeric priorities in the opposite order
getPriorityValueReversed(priority) ==
    CASE priority = "high"   -> 10
      [] priority = "medium" -> 5
      [] priority = "low"    -> 1
      [] OTHER               -> 5

getPriorityValue(priority) ==
    CASE priority = "high"   -> 1
      [] priority = "medium" -> 5
      [] priority = "low"    -> 10
      [] OTHER               -> 5

\* QueueJobData {mailboxId, type, priority}: it has no jobType
PlainData(type, priority) ==
    [mailboxId |-> "mb1", type |-> type, priority |-> priority, jobType |-> Undefined]

\* QueueJobData of a caller that also puts the job type into the data
TypedData(type, priority, jobType) ==
    [mailboxId |-> "mb1", type |-> type, priority |-> priority, jobType |-> jobType]

\* the options of addJob, none given: attempts 0 (options.attempts || 3
\* takes 0 and undefined alike), no priority key
NoOptions == [attempts |-> 0, priority |-> Null]

\* the addJob calls made: <<jobType, data, options>>.
\* The first is addMailbox's; the last overrides attempts.
JobInputs ==
    { <<"backfill", PlainData("initial", "high"), NoOptions>>,
      <<"backfill", TypedData("initial", "high", "backfill"), NoOptions>>,
      <<"sync", TypedData("incremental", "medium", "sync"), NoOptions>>,
      <<"refresh_token", TypedData("incremental", "low", "refresh_token"), NoOptions>>,
      <<"sync", PlainData("incremental", "low"), [NoOptions EXCEPT !.attempts = 4]>> }

\* the addJob calls made where the order of the jobs matters: every
\* priority, an unrecognised one, and a priority given in the options
PriorityInputs ==
    { <<"sync", TypedData("incremental", p, "sync"), NoOptions>> :
        p \in {"high", "medium", "low", "urgent"} }
    \cup { <<"sync", TypedData("incremental", "low", "sync"),
             [NoOptions EXCEPT !.priority = 1]>> }

RECURSIVE Pow2(_)
Pow2(n) == IF n <= 0 THEN 1 ELSE 2 * Pow2(n - 1)

\* the exponential backoff of the queue: 2^(attemptsMade - 1) * delay
Backoff(attemptsMade) == Pow2(attemptsMade - 1) * BackoffDelay

\* a job joins the waiting jobs behind those of its priority or better
RECURSIVE Enqueue(_, _, _)
Enqueue(q, js, id) ==
    IF q = <<>> THEN <<id>>
    ELSE IF js[Head(q)].opts.priority <= js[id].opts.priority
         THEN <<Head(q)>> \o Enqueue(Tail(q), js, id)
         ELSE <<id>> \o q

JobsIn(state) == {id \in DOMAIN jobs : jobs[id].state = state}

\* ingestionQueue.add(jobType, data, {priority, delay, attempts, ...options})
addJob(jobType, data, options) ==
    /\ Len(jobs) < MaxJobs
    /\ LET id  == Len(jobs) + 1
           job == [ name |-> jobType, data |-> data, options |-> options,
                    opts |-> [ priority |-> IF options.priority # Null
                                            THEN options.priority
                                            ELSE getPriorityValue(data.priority),
                               attempts |-> IF options.attempts # 0
                                            THEN options.attempts ELSE DefaultAttempts ],
                    state |-> "waiting", attemptsMade |-> 0,
                    handler |-> "none", executions |-> 0, waits |-> <<>>,
                    retries |-> 0 ]
       IN  /\ jobs' = Append(jobs, job)
           /\ waitq' = Enqueue(waitq, jobs', id)
    /\ lastOp' = <<>>
    /\ UNCHANGED <<worker, workers, stopping, syncVars, bulkVars, aggVars, serviceVars>>

\* addMailbox: queueService.addJob('backfill', {mailboxId, type, priority})
AddMailboxBackfill == addJob("backfill", PlainData("initial", "high"), NoOptions)

startWorker ==
    /\ ~worker
    /\ worker' = TRUE
    /\ lastOp' = <<>>
    /\ UNCHANGED <<jobs, waitq, workers, stopping, syncVars, bulkVars, aggVars, serviceVars>>

\* the worker takes the next waiting job while it runs fewer than 5
TakeJob ==
    /\ worker
    /\ waitq # <<>>
    /\ Cardinality(JobsIn("active")) < WorkerConcurrency
    /\ jobs' = [jobs EXCEPT ![Head(waitq)].state = "active"]
    /\ waitq' = Tail(waitq)
    /\ lastOp' = <<>>
    /\ UNCHANGED <<worker, workers, stopping, syncVars, bulkVars, aggVars, serviceVars>>

\* switch (jobType) of processJob, jobType being job.data.jobType
HandlerOf(job) ==
    IF job.data.jobType \in JobTypes THEN job.data.jobType ELSE "unknown"

\* (mutant) a failed attempt that is retried whatever attempts says
AfterFailureAlwaysRetry(job) ==
    [job EXCEPT !.state = "delayed", !.attemptsMade = @ + 1,
                !.waits = Append(@, Backoff(job.attemptsMade + 1))]

\* the queue after a throwing processor: backoff while attempts remain,
\* the failed set after the last
AfterFailure(job) ==
    IF job.attemptsMade + 1 < job.opts.attempts
    THEN [job EXCEPT !.state = "delayed", !.attemptsMade = @ + 1,
                     !.waits = Append(@, Backoff(job.attemptsMade + 1))]
    ELSE [job EXCEPT !.state = "failed", !.attemptsMade = @ + 1]

\* processJob: the three handlers return, every other job type throws
processJob(id) ==
    /\ id \in JobsIn("active")
    /\ LET ran == [jobs[id] EXCEPT !.handler = HandlerOf(jobs[id]),
                                   !.executions = @ + 1]
       IN  jobs' = [jobs EXCEPT ![id] =
                      IF ran.handler = "unknown" THEN AfterFailure(ran)
                      ELSE [ran EXCEPT !.state = "completed", !.attemptsMade = @ + 1]]
    /\ lastOp' = <<>>
    /\ UNCHANGED <<waitq, worker, workers, stopping, syncVars, bulkVars, aggVars, serviceVars>>

\* the backoff of a delayed job has elapsed
BackoffElapsed(id) ==
    /\ id \in JobsIn("delayed")
    /\ jobs' = [jobs EXCEPT ![id].state = "waiting"]
    /\ waitq' = Enqueue(waitq, jobs, id)
    /\ lastOp' = <<>>
    /\ UNCHANGED <<worker, workers, stopping, syncVars, bulkVars, aggVars, serviceVars>>

\* (mutant) a retry that returns every failed job to the queue
RECURSIVE RetryAllFailed(_, _, _)
RetryAllFailed(js, q, id) ==
    IF id > Len(js) THEN <<js, q>>
    ELSE IF js[id].state = "failed"
         THEN RetryAllFailed([js EXCEPT ![id].state = "waiting", ![id].retries = @ + 1,
                                        ![id].executions = 0, ![id].waits = <<>>],
                             Enqueue(q, js, id), id + 1)
         ELSE RetryAllFailed(js, q, id + 1)

RetryAny(js, q, jobId) == RetryAllFailed(js, q, 1)

\* job.retry() of a failed job: back among the waiting jobs
Retry(js, q, jobId) ==
    << [js EXCEPT ![jobId].state = "waiting", ![jobId].retries = @ + 1,
                  ![jobId].executions = 0, ![jobId].waits = <<>>],
       Enqueue(q, js, jobId) >>

\* retryFailedJob(jobId): nothing for an unknown id; job.retry() rejects for
\* a job that is not failed
retryFailedJob(jobId) ==
    /\ jobId \in DOMAIN jobs => jobs[jobId].retries < MaxRetries
    /\ lastOp' = <<"retryFailedJob", jobId>>
    /\ IF jobId \in DOMAIN jobs /\ jobs[jobId].state = "failed"
       THEN /\ jobs' = Retry(jobs, waitq, jobId)[1]
            /\ waitq' = Retry(jobs, waitq, jobId)[2]
       ELSE UNCHANGED <<jobs, waitq>>
    /\ UNCHANGED <<worker, workers, stopping, syncVars, bulkVars, aggVars, serviceVars>>

InitQueue ==
    /\ jobs = <<>>
    /\ waitq = <<>>
    /\ worker = FALSE
    /\ lastOp = <<>>
    /\ workers = <<>>
    /\ stopping = 0
    /\ SyncIdle
    /\ BulkIdle
    /\ AggIdle
    /\ ServiceIdle

NextQueue ==
    \/ AddMailboxBackfill
    \/ \E in \in JobInputs : addJob(in[1], in[2], in[3])
    \/ startWorker
    \/ TakeJob
    \/ \E id \in DOMAIN jobs : processJob(id)
    \/ \E id \in DOMAIN jobs : BackoffElapsed(id)
    \/ \E id \in 1..(MaxJobs + 1) : retryFailedJob(id)

SpecQueue == InitQueue /\ [][NextQueue]_vars

\* the queue with jobs of every priority
NextPriority ==
    \/ AddMailboxBackfill
    \/ \E in \in PriorityInputs : addJob(in[1], in[2], in[3])
    \/ startWorker
    \/ TakeJob
    \/ \E id \in DOMAIN jobs : processJob(id)
    \/ \E id \in DOMAIN jobs : BackoffElapsed(id)
    \/ \E id \in 1..(MaxJobs + 1) : retryFailedJob(id)

SpecPriority == InitQueue /\ [][NextPriority]_vars

\* startBackgroundJobs starts the worker; a started worker keeps taking and
\* processing jobs, and the timers of delayed jobs run out
FairSpecQueue ==
    /\ SpecQueue
    /\ WF_vars(startWorker)
    /\ WF_vars(TakeJob)
    /\ WF_vars(\E id \in DOMAIN jobs : processJob(id))
    /\ WF_vars(\E id \in DOMAIN jobs : BackoffElapsed(id))

\* ------------------------------------------- the worker of the queue
\* The Worker objects of one QueueService with the jobs each of them is
\* executing. A job here is its state only.
PlainJob == [state |-> "waiting"]

\* a job is added to the 'ingestion' queue
QueueAdd ==
    /\ Len(jobs) < MaxQueued
    /\ jobs' = Append(jobs, PlainJob)
    /\ waitq' = Append(waitq, Len(jobs) + 1)
    /\ lastOp' = <<>>
    /\ UNCHANGED <<worker, workers, stopping, syncVars, bulkVars, aggVars, serviceVars>>

\* new Worker('ingestion', processor, {concurrency: 5, ...})
NewWorker == [state |-> "running", executing |-> {}]

\* (mutant) a service that never takes its worker for started
AlreadyStartedNever(flag) == FALSE

\* if (this.isWorkerStarted) of startWorker
AlreadyStarted(flag) == flag

\* startWorker(): a warning when the worker is started, a new Worker
\* otherwise; the method has no await
startWorkerCall ==
    /\ AlreadyStarted(worker) \/ Len(workers) < MaxWorkers
    /\ lastOp' = <<"startWorker">>
    /\ IF AlreadyStarted(worker)
       THEN UNCHANGED <<worker, workers>>
       ELSE /\ workers' = Append(workers, NewWorker)
            /\ worker' = TRUE
    /\ UNCHANGED <<jobs, waitq, stopping, syncVars, bulkVars, aggVars, serviceVars>>

\* stopWorker() up to its await: nothing when the worker is not started,
\* this.worker.close() otherwise, this.worker being the Worker created last;
\* a closing Worker takes no more jobs
stopWorkerCall ==
    /\ worker => stopping < MaxStopCalls
    /\ lastOp' = <<"stopWorker">>
    /\ IF ~worker
       THEN UNCHANGED <<workers, stopping>>
       ELSE /\ workers' = [workers EXCEPT ![Len(workers)].state =
                              IF @ = "running" THEN "closing" ELSE @]
            /\ stopping' = stopping + 1
    /\ UNCHANGED <<jobs, waitq, worker, syncVars, bulkVars, aggVars, serviceVars>>

\* close() resolves once the Worker executes no job; the stopWorker calls
\* awaiting it continue one after the other: this.isWorkerStarted = false
CloseResolved ==
    /\ stopping > 0
    /\ workers[Len(workers)].executing = {}
    /\ workers' = [workers EXCEPT ![Len(workers)].state = "closed"]
    /\ worker' = FALSE
    /\ stopping' = 0
    /\ lastOp' = <<>>
    /\ UNCHANGED <<jobs, waitq, syncVars, bulkVars, aggVars, serviceVars>>

\* a running Worker takes the next waiting job while it executes fewer
\* than its concurrency
WorkerTake(w) ==
    /\ workers[w].state = "running"
    /\ waitq # <<>>
    /\ Cardinality(workers[w].executing) < WorkerConcurrency
    /\ workers' = [workers EXCEPT ![w].executing = @ \cup {Head(waitq)}]
    /\ jobs' = [jobs EXCEPT ![Head(waitq)].state = "active"]
    /\ waitq' = Tail(waitq)
    /\ lastOp' = <<>>
    /\ UNCHANGED <<worker, stopping, syncVars, bulkVars, aggVars, serviceVars>>

\* the processor of a job returns or throws
WorkerDone(w, id) ==
    /\ id \in workers[w].executing
    /\ workers' = [workers EXCEPT ![w].executing = @ \ {id}]
    /\ jobs' = [jobs EXCEPT ![id].state = "completed"]
    /\ lastOp' = <<>>
    /\ UNCHANGED <<waitq, worker, stopping, syncVars, bulkVars, aggVars, serviceVars>>

NextWorker ==
    \/ QueueAdd
    \/ startWorkerCall
    \/ stopWorkerCall
    \/ CloseResolved
    \/ \E w \in DOMAIN workers : WorkerTake(w)
    \/ \E w \in DOMAIN workers : \E id \in DOMAIN jobs : WorkerDone(w, id)

SpecWorker == InitQueue /\ [][NextWorker]_vars

\* --------------------------------------- the ingestion service process
\* The process from its start: validateEnv, the listen callback, and then the
\* calls addMailbox, syncMailbox and refreshMailboxToken, each entire. A
\* Mailbox row may be there from an earlier process: its credentials are in
\* Storage, no Connector is cached for it.
KeyStates == {"absent", "short", "valid"}
AddFailures == {"none", "init", "profile", "create", "enqueue"}
NoUse == [decrypts |-> 0, inits |-> 0, syncs |-> 0]

\* process.env.ENCRYPTION_KEY!.substring(0, 32) of encryptString and
\* decryptString throws a TypeError when the variable is not set
KeyUsable(e) == e.ENCRYPTION_KEY # "absent"
KeyError == MkError(MsgCannotRead, "key")

\* envSchema.parse(process.env): ENCRYPTION_KEY is not in the schema
SchemaAccepts(e) == e.required

\* validateEnv at module load: process.exit(1) on a schema error
validateEnv ==
    /\ server = "starting"
    /\ server' = IF SchemaAccepts(env) THEN "validated" ELSE "exited"
    /\ UNCHANGED <<env, request, uses, syncVars, bulkVars, queueVars, aggVars>>

\* the callback of app.listen: database, Redis, background jobs; the
\* process exits when one of them fails
Listen(ok) ==
    /\ server = "validated"
    /\ server' = IF ok THEN "listening" ELSE "exited"
    /\ UNCHANGED <<env, request, uses, syncVars, bulkVars, queueVars, aggVars>>

\* the job addMailbox enqueues
BackfillJob(mb) ==
    [ name |-> "backfill",
      data |-> [mailboxId |-> mb, type |-> "initial", priority |-> "high"],
      state |-> "waiting" ]

\* addMailbox(organizationId, ...): fail names the step that throws, if one
\* does; the encryption throws when the key cannot be read
addMailbox(org, fail) ==
    /\ server = "listening"
    /\ \E free \in MailboxIds : free \notin DOMAIN mailbox
    /\ LET mb == CHOOSE free \in MailboxIds : free \notin DOMAIN mailbox
           row == [isActive |-> TRUE, lastSyncAt |-> now, organizationId |-> org]
           thrown(cause) == [ op |-> "addMailbox", mailboxId |-> mb,
                              outcome |-> "thrown",
                              error |-> MkError(MsgFailedToAdd, cause) ]
       IN  IF fail \in {"init", "profile"}
           THEN /\ request' = thrown(fail)
                /\ UNCHANGED <<mailbox, connectors, jobs, waitq, uses>>
           ELSE IF ~KeyUsable(env)
           THEN /\ request' = thrown("key")
                /\ UNCHANGED <<mailbox, connectors, jobs, waitq, uses>>
           ELSE IF fail = "create"
           THEN /\ request' = thrown(fail)
                /\ UNCHANGED <<mailbox, connectors, jobs, waitq, uses>>
           ELSE LET created == [m \in DOMAIN mailbox \cup {mb} |->
                                   IF m = mb THEN row ELSE mailbox[m]]
                    cached == connectors \cup {mb}
                IN  /\ uses' = [uses EXCEPT ![mb].inits = @ + 1]
                    /\ IF fail = "enqueue"
                       THEN \* the catch block logs and throws: the row
                            \* created and the connector cached stay
                            /\ request' = thrown(fail)
                            /\ mailbox' = created
                            /\ connectors' = cached
                            /\ UNCHANGED <<jobs, waitq>>
                       ELSE /\ request' = [ op |-> "addMailbox", mailboxId |-> mb,
                                            outcome |-> "returned", error |-> NoError ]
                            /\ mailbox' = created
                            /\ connectors' = cached
                            /\ jobs' = Append(jobs, BackfillJob(mb))
                            /\ waitq' = Append(waitq, Len(jobs) + 1)
    /\ UNCHANGED <<env, server, now, inbox, messageRows, threadRows, call, idem, fetched,
                   worker, lastOp, workers, stopping, bulkVars, aggVars>>

\* (mutant) a service that looks no connector up
CachedNever(cached, mb) == FALSE

\* this.gmailConnectors.get(mailboxId)
Cached(cached, mb) == mb \in cached

\* syncMailbox(mb): the mailbox is loaded, the connector taken from the cache
\* or made from the decrypted credentials, and the rest of the sync returns
\* or throws; init tells whether initializeWithCredentials succeeds
syncMailbox(mb, init, rest) ==
    /\ server = "listening"
    /\ mb \in DOMAIN mailbox
    /\ uses[mb].syncs < MaxSyncCalls
    /\ LET thrown(err) == [ op |-> "syncMailbox", mailboxId |-> mb,
                            outcome |-> "thrown", error |-> err ]
           returned == [ op |-> "syncMailbox", mailboxId |-> mb,
                         outcome |-> "returned", error |-> NoError ]
           counted == [uses EXCEPT ![mb].syncs = @ + 1]
           \* the sync once it has its connector
           after(u, cached) ==
               /\ connectors' = cached
               /\ uses' = u
               /\ IF rest = NoError
                  THEN request' = returned /\ UNCHANGED mailbox
                  ELSE /\ request' = thrown(rest)
                       /\ mailbox' = CatchBlock(mailbox, mb, rest)
       IN  IF ~mailbox[mb].isActive
           THEN /\ request' = returned
                /\ uses' = counted
                /\ UNCHANGED <<mailbox, connectors>>
           ELSE IF Cached(connectors, mb)
           THEN after(counted, connectors)
           ELSE IF ~KeyUsable(env)
           THEN /\ request' = thrown(KeyError)
                /\ mailbox' = CatchBlock(mailbox, mb, KeyError)
                /\ uses' = counted
                /\ UNCHANGED connectors
           ELSE IF ~init
           THEN /\ request' = thrown(InitError("auth"))
                /\ mailbox' = CatchBlock(mailbox, mb, InitError("auth"))
                /\ uses' = [counted EXCEPT ![mb].decrypts = @ + 1, ![mb].inits = @ + 1]
                /\ UNCHANGED connectors
           ELSE after([counted EXCEPT ![mb].decrypts = @ + 1, ![mb].inits = @ + 1],
                      connectors \cup {mb})
    /\ UNCHANGED <<env, server, now, inbox, messageRows, threadRows, call, idem, fetched,
                   bulkVars, queueVars, aggVars>>

\* refreshMailboxToken(mb): false without a cached connector, when the
\* refresh fails and when the new token cannot be encrypted
refreshMailboxTokenCall(mb, ok) ==
    /\ server = "listening"
    /\ request' = [ op |-> "refreshMailboxToken", mailboxId |-> mb,
                    outcome |-> IF Cached(connectors, mb) /\ ok /\ KeyUsable(env)
                                   /\ mb \in DOMAIN mailbox
                                THEN "true" ELSE "false",
                    error |-> IF Cached(connectors, mb) /\ ok /\ ~KeyUsable(env)
                              THEN KeyError ELSE NoError ]
    /\ UNCHANGED <<env, server, uses, syncVars, bulkVars, queueVars, aggVars>>

InitService ==
    /\ now = 0
    /\ \E old \in SUBSET {"mb1"} :
         mailbox = [mb \in old |->
                      [isActive |-> TRUE, lastSyncAt |-> 0, organizationId |-> "org1"]]
    /\ inbox = <<>>
    /\ messageRows = EmptyBag
    /\ threadRows = EmptyBag
    /\ connectors = {}
    /\ call = IdleCall
    /\ idem = HistoryOff
    /\ fetched = <<>>
    /\ BulkIdle
    /\ QueueIdle
    /\ AggIdle
    /\ env \in [required : BOOLEAN, ENCRYPTION_KEY : KeyStates]
    /\ server = "starting"
    /\ request = NoRequest
    /\ uses = [mb \in MailboxIds |-> NoUse]

NextService ==
    \/ validateEnv
    \/ \E ok \in BOOLEAN : Listen(ok)
    \/ \E fail \in AddFailures : addMailbox("org1", fail)
    \/ \E mb \in MailboxIds, init \in BOOLEAN, rest \in ProviderErrors \cup {NoError} :
          syncMailbox(mb, init, rest)
    \/ \E mb \in MailboxIds, ok \in BOOLEAN : refreshMailboxTokenCall(mb, ok)

SpecService == InitService /\ [][NextService]_vars

\* ------------------------------------------------- AggregationService
\* Days are whole numbers; a bucket is one day.  A value that the code
\* computes by a division is kept as the pair <<numerator, denominator>>.
AggOrgs == <<"org1", "org2">>
AggMailboxes == [org1 |-> <<"mbA", "mbB">>, org2 |-> <<"mbC">>]
\* a userId column that holds null, and the '' the upsert looks it up by
NullUser == "null"
EmptyString == ""
AggregateTypes ==
    <<"EMAIL_VOLUME_SENT", "EMAIL_VOLUME_RECEIVED", "RESPONSE_TIME_AVERAGE",
      "RESPONSE_TIME_MEDIAN", "RESPONSE_TIME_P90", "CONTACT_ENGAGEMENT",
      "SENTIMENT_AVERAGE">>
CacheKeys == {"analytics:overview:q1"}

\* the Message rows the aggregation finds
StoredMessages ==
    { [ messageId |-> "a1", organizationId |-> "org1", mailboxId |-> "mbA",
        threadId |-> "t1", fromEmail |-> "a@x", toEmails |-> {"me@org1"},
        isSent |-> FALSE, timestamp |-> 0, sentiment |-> Null ],
      [ messageId |-> "a2", organizationId |-> "org1", mailboxId |-> "mbB",
        threadId |-> "t1", fromEmail |-> "a@x", toEmails |-> {"b@y"},
        isSent |-> TRUE, timestamp |-> 0, sentiment |-> Null ],
      [ messageId |-> "a3", organizationId |-> "org2", mailboxId |-> "mbC",
        threadId |-> "t2", fromEmail |-> "b@y", toEmails |-> {"me@org2"},
        isSent |-> FALSE, timestamp |-> 1, sentiment |-> Null ] }

\* the Thread rows the aggregation finds: id is the row's own id, threadId
\* the provider's
StoredThreads ==
    { [ id |-> "th1", threadId |-> "t1", organizationId |-> "org1",
        mailboxId |-> "mbA", messageCount |-> 2, lastMessageAt |-> 0,
        responseTime |-> <<30, 1>>, isResolved |-> FALSE ] }

StoredContacts ==
    [ c1 |-> [ organizationId |-> "org1", email |-> "a@x", messageCount |-> 0,
               responseRate |-> <<0, 1>>, lastContactAt |-> Null ],
      c2 |-> [ organizationId |-> "org2", email |-> "b@y", messageCount |-> 0,
               responseRate |-> <<0, 1>>, lastContactAt |-> Null ] ]

\* timestamp: {gte: startDate, lte: endDate} of the bucket of one day
InBucket(t, date) == t # Null /\ t = date

Whole(n) == <<n, 1>>

RECURSIVE FracSum(_)
FracSum(seq) ==
    IF seq = <<>> THEN <<0, 1>>
    ELSE LET rest == FracSum(Tail(seq))
             x == Head(seq)
         IN  <<x[1] * rest[2] + rest[1] * x[2], x[2] * rest[2]>>

FracLess(x, y) == x[1] * y[2] < y[1] * x[2]

\* reduce(...) / length
Mean(seq) ==
    IF seq = <<>> THEN <<0, 1>>
    ELSE LET sum == FracSum(seq) IN <<sum[1], sum[2] * Len(seq)>>

RECURSIVE SetToSeq(_)
SetToSeq(S) ==
    IF S = {} THEN <<>>
    ELSE LET x == CHOOSE y \in S : TRUE IN <<x>> \o SetToSeq(S \ {x})

\* the sample left as the query returned it
SortAscNot(seq) == seq

\* responseTimes.sort((a, b) => a - b)
RECURSIVE SortAsc(_)
SortAsc(seq) ==
    IF seq = <<>> THEN <<>>
    ELSE LET k == CHOOSE i \in DOMAIN seq :
                    \A j \in DOMAIN seq : ~FracLess(seq[j], seq[i])
         IN  <<seq[k]>> \o SortAsc(SubSeq(seq, 1, k - 1) \o SubSeq(seq, k + 1, Len(seq)))

\* getResponseTimeAggregates
getResponseTimeAggregates(threads, mailboxId, date) ==
    LET responseTimes == SetToSeq({t \in BagToSet(threads) :
                                     /\ t.mailboxId = mailboxId
                                     /\ InBucket(t.lastMessageAt, date)
                                     /\ t.responseTime # NoFraction})
        sample == [i \in DOMAIN responseTimes |-> responseTimes[i].responseTime]
        sorted == SortAsc(sample)
        p90Index == (Len(sorted) * 9) \div 10
    IN  IF sample = <<>>
        THEN [average |-> <<0, 1>>, median |-> <<0, 1>>, p90 |-> <<0, 1>>]
        ELSE [ average |-> Mean(sample),
               median |-> sorted[(Len(sorted) \div 2) + 1],
               p90 |-> IF p90Index + 1 \in DOMAIN sorted
                       THEN sorted[p90Index + 1] ELSE <<0, 1>> ]

\* getContactEngagementAggregates: the mean responseRate of the
\* organization's contacts last touched in the bucket
getContactEngagementAggregates(cts, org, date) ==
    LET ids == SetToSeq({c \in DOMAIN cts :
                           /\ cts[c].organizationId = org
                           /\ InBucket(cts[c].lastContactAt, date)})
    IN  Mean([i \in DOMAIN ids |-> cts[ids[i]].responseRate])

\* (mutant) the sentiment query without its mailboxId condition
getSentimentAggregateOfAll(msgs, mailboxId, date) ==
    LET found == SetToSeq({m \in BagToSet(msgs) :
                             InBucket(m.timestamp, date) /\ m.sentiment # Null})
    IN  Mean([i \in DOMAIN found |-> Whole(found[i].sentiment)])

\* getSentimentAggregate
getSentimentAggregate(msgs, mailboxId, date) ==
    LET found == SetToSeq({m \in BagToSet(msgs) :
                             /\ m.mailboxId = mailboxId
                             /\ InBucket(m.timestamp, date)
                             /\ m.sentiment # Null})
    IN  Mean([i \in DOMAIN found |-> Whole(found[i].sentiment)])

\* prisma.message.count of one mailbox in the bucket
CountOfMailbox(msgs, mailboxId, org, date, isSent) ==
    Cardinality({m \in BagToSet(msgs) :
                   /\ m.mailboxId = mailboxId /\ m.organizationId = org
                   /\ InBucket(m.timestamp, date) /\ m.isSent = isSent})

\* the aggregates array of aggregateForMailbox
AggregatesOf(msgs, threads, cts, mailboxId, userId, org, date) ==
    LET responseTimes == getResponseTimeAggregates(threads, mailboxId, date)
        values ==
            << Whole(CountOfMailbox(msgs, mailboxId, org, date, TRUE)),
               Whole(CountOfMailbox(msgs, mailboxId, org, date, FALSE)),
               responseTimes.average, responseTimes.median, responseTimes.p90,
               getContactEngagementAggregates(cts, org, date),
               getSentimentAggregate(msgs, mailboxId, date) >>
    IN  [ i \in DOMAIN AggregateTypes |->
            [ type |-> AggregateTypes[i], date |-> date, value |-> values[i],
              organizationId |-> org, userId |-> userId ] ]

\* agg.userId || ''
KeyUser(userId) == IF userId \in {NullUser, EmptyString} THEN EmptyString ELSE userId

AggregateHits(rows, type, date, org, userId) ==
    {r \in BagToSet(rows) : /\ r.type = type /\ r.date = date
                            /\ r.organizationId = org /\ r.userId = userId}

\* (mutant) an upsert that adds the new value to the one stored
UpsertAggregateSumming(rows, agg) ==
    LET hit == AggregateHits(rows, agg.type, agg.date, agg.organizationId,
                             KeyUser(agg.userId))
    IN  IF hit # {}
        THEN LET old == CHOOSE r \in hit : TRUE
             IN  (rows (-) SetToBag({old}))
                     (+) SetToBag({[old EXCEPT !.value = FracSum(<<old.value, agg.value>>)]})
        ELSE rows (+) SetToBag({agg})

\* prisma.analyticsAggregate.upsert: looked up by
\* type_date_organizationId_userId with userId || '', created as agg is
UpsertAggregate(rows, agg) ==
    LET hit == AggregateHits(rows, agg.type, agg.date, agg.organizationId,
                             KeyUser(agg.userId))
    IN  IF hit # {}
        THEN LET old == CHOOSE r \in hit : TRUE
             IN  (rows (-) SetToBag({old})) (+) SetToBag({[old EXCEPT !.value = agg.value]})
        ELSE rows (+) SetToBag({agg})

RECURSIVE UpsertAggregates(_, _)
UpsertAggregates(rows, aggs) ==
    IF aggs = <<>> THEN rows
    ELSE UpsertAggregates(UpsertAggregate(rows, Head(aggs)), Tail(aggs))

\* the for loop of aggregateForOrganization over the mailboxes
RECURSIVE aggregateForMailboxes(_, _, _, _, _, _, _, _)
aggregateForMailboxes(rows, msgs, threads, cts, users, org, date, todo) ==
    IF todo = <<>> THEN rows
    ELSE aggregateForMailboxes(
             UpsertAggregates(rows, AggregatesOf(msgs, threads, cts, Head(todo),
                                                 users[Head(todo)], org, date)),
             msgs, threads, cts, users, org, date, Tail(todo))

\* updateContactMetrics
updateContactMetrics(cts, msgs, org, date) ==
    [ c \in DOMAIN cts |->
        IF cts[c].organizationId # org THEN cts[c]
        ELSE LET inBucket == {m \in BagToSet(msgs) :
                                /\ m.organizationId = org /\ InBucket(m.timestamp, date)}
                 messageCount == Cardinality({m \in inBucket :
                                    \/ m.fromEmail = cts[c].email
                                    \/ cts[c].email \in m.toEmails})
                 responseCount == Cardinality({m \in inBucket :
                                    m.fromEmail = cts[c].email /\ m.isSent})
             IN  [ cts[c] EXCEPT
                     !.messageCount = cts[c].messageCount + messageCount,
                     !.responseRate = IF messageCount > 0
                                      THEN <<responseCount, messageCount>>
                                      ELSE <<0, 1>>,
                     !.lastContactAt = date ] ]

MinutesPerDay == 1440

RECURSIVE SortTimes(_)
SortTimes(S) ==
    IF S = {} THEN <<>>
    ELSE LET x == CHOOSE y \in S : \A z \in S : y.timestamp <= z.timestamp
         IN  <<x.timestamp>> \o SortTimes(S \ {x})

RECURSIVE TotalResponseTime(_)
TotalResponseTime(times) ==
    IF Len(times) < 2 THEN 0
    ELSE (times[2] - times[1]) * MinutesPerDay + TotalResponseTime(Tail(times))

\* updateThreadMetrics: the thread's messages are looked up by threadId:
\* thread.id
ThreadMetrics(thread, msgs, org) ==
    LET found == {m \in BagToSet(msgs) :
                    m.threadId = thread.id /\ m.organizationId = org}
        times == SortTimes(found)
        responseCount == IF times = <<>> THEN 0 ELSE Len(times) - 1
    IN  [ thread EXCEPT
            !.messageCount = Cardinality(found),
            !.responseTime = IF responseCount > 0
                             THEN <<TotalResponseTime(times), responseCount>>
                             ELSE NoFraction ]

updateThreadMetrics(threads, msgs, org, date) ==
    LET touched == {t \in BagToSet(threads) :
                      t.organizationId = org /\ InBucket(t.lastMessageAt, date)}
        kept == {t \in BagToSet(threads) : t \notin touched}
    IN  SetToBag(kept) (+) SetToBag({ThreadMetrics(t, msgs, org) : t \in touched})

\* one call of runHourlyAggregations, as the run record the model keeps:
\* i organizations of the list are behind it
NewRun(trigger) ==
    [ trigger |-> trigger, pc |-> "orgs", i |-> 0, date |-> today - 1,
      aggregated |-> {}, outcome |-> "running", before |-> version,
      keys |-> {}, cleared |-> FALSE,
      sequential |-> \A k \in DOMAIN runs : runs[k].pc = "done",
      snap |-> <<>> ]

Failures ==
    Cardinality({k \in DOMAIN runs :
                   runs[k].outcome = "thrown"
                   \/ (runs[k].pc = "done" /\ ~runs[k].cleared)})

\* app.listen's callback awaits startBackgroundJobs: the timer is set and
\* the eager run begins
startBackgroundJobs ==
    /\ process = "starting"
    /\ process' = "up"
    /\ timer' = TRUE
    /\ runs' = Append(runs, NewRun("eager"))
    /\ UNCHANGED <<today, userOf, aggregates, contacts, version, cache, reader>>
    /\ UNCHANGED <<syncVars, bulkVars, queueVars, serviceVars>>

\* the setInterval callback fires
HourlyTick ==
    /\ process = "up"
    /\ timer
    /\ Len(runs) < MaxRuns
    /\ runs' = Append(runs, NewRun("hourly"))
    /\ UNCHANGED <<process, timer, today, userOf, aggregates, contacts, version,
                   cache, reader>>
    /\ UNCHANGED <<syncVars, bulkVars, queueVars, serviceVars>>

\* await this.aggregateForOrganization(org.id, yesterday) of run r.  A
\* failure is rethrown by aggregateForOrganization and by
\* runHourlyAggregations; the interval callback catches it, the eager call
\* lets it reach index.ts, which exits the process.
aggregateForOrganization(r, ok) ==
    /\ process = "up"
    /\ r \in DOMAIN runs
    /\ runs[r].pc = "orgs"
    /\ runs[r].i < Len(AggOrgs)
    /\ LET org == AggOrgs[runs[r].i + 1]
           date == runs[r].date
           last == runs[r].i + 1 = Len(AggOrgs)
       IN  IF ok
           THEN /\ aggregates' = aggregateForMailboxes(aggregates, messageRows, threadRows,
                                     contacts, userOf, org, date, AggMailboxes[org])
                /\ contacts' = updateContactMetrics(contacts, messageRows, org, date)
                /\ threadRows' = updateThreadMetrics(threadRows, messageRows, org, date)
                /\ version' = version + 1
                /\ runs' = [runs EXCEPT ![r].i = @ + 1,
                                        ![r].aggregated = @ \cup {org},
                                        ![r].pc = IF last THEN "clearing" ELSE "orgs"]
                /\ UNCHANGED process
           ELSE /\ Failures < MaxAggFailures
                /\ runs' = [runs EXCEPT ![r].pc = "done", ![r].outcome = "thrown",
                                        ![r].cleared = TRUE, ![r].snap = contacts]
                /\ process' = IF runs[r].trigger = "eager" THEN "exited" ELSE process
                /\ UNCHANGED <<aggregates, contacts, threadRows, version>>
    /\ UNCHANGED <<timer, today, userOf, cache, reader>>
    /\ UNCHANGED <<now, mailbox, inbox, messageRows, connectors, call, idem, fetched>>
    /\ UNCHANGED <<bulkVars, queueVars, serviceVars>>

\* clearAnalyticsCache, first half: redis.keys('analytics:*').  An error is
\* caught and logged, and the run completes.
clearAnalyticsCacheKeys(r, ok) ==
    /\ process = "up"
    /\ r \in DOMAIN runs
    /\ runs[r].pc = "clearing"
    /\ IF ok
       THEN runs' = [runs EXCEPT ![r].pc = "deleting", ![r].keys = DOMAIN cache]
       ELSE /\ Failures < MaxAggFailures
            /\ runs' = [runs EXCEPT ![r].pc = "done", ![r].outcome = "completed",
                                    ![r].snap = contacts]
    /\ UNCHANGED <<process, timer, today, userOf, aggregates, contacts, version,
                   cache, reader>>
    /\ UNCHANGED <<syncVars, bulkVars, queueVars, serviceVars>>

\* clearAnalyticsCache, second half: redis.del of every key found
clearAnalyticsCacheDel(r) ==
    /\ process = "up"
    /\ r \in DOMAIN runs
    /\ runs[r].pc = "deleting"
    /\ cache' = [k \in DOMAIN cache \ runs[r].keys |-> cache[k]]
    /\ runs' = [runs EXCEPT ![r].pc = "done", ![r].outcome = "completed",
                            ![r].cleared = TRUE, ![r].snap = contacts]
    /\ UNCHANGED <<process, timer, today, userOf, aggregates, contacts, version,
                   reader>>
    /\ UNCHANGED <<syncVars, bulkVars, queueVars, serviceVars>>

\* getOverviewAnalytics up to the computation: redis.get misses and the
\* analytics are computed from the aggregates as they are
getOverviewAnalyticsCompute(key) ==
    /\ process = "up"
    /\ reader = <<>>
    /\ key \notin DOMAIN cache
    /\ reader' = [key |-> key, version |-> version]
    /\ UNCHANGED <<process, timer, today, userOf, runs, aggregates, contacts,
                   version, cache>>
    /\ UNCHANGED <<syncVars, bulkVars, queueVars, serviceVars>>

\* getOverviewAnalytics from redis.setex on
getOverviewAnalyticsStore ==
    /\ process = "up"
    /\ reader # <<>>
    /\ cache' = [k \in DOMAIN cache \cup {reader.key} |->
                   IF k = reader.key THEN reader.version ELSE cache[k]]
    /\ reader' = <<>>
    /\ UNCHANGED <<process, timer, today, userOf, runs, aggregates, contacts,
                   version>>
    /\ UNCHANGED <<syncVars, bulkVars, queueVars, serviceVars>>

\* the entry's time to live of 300 seconds is over
CacheExpire(key) ==
    /\ key \in DOMAIN cache
    /\ cache' = [k \in DOMAIN cache \ {key} |-> cache[k]]
    /\ UNCHANGED <<process, timer, today, userOf, runs, aggregates, contacts,
                   version, reader>>
    /\ UNCHANGED <<syncVars, bulkVars, queueVars, serviceVars>>

\* startOfDay(new Date()) moves on by a day
Midnight ==
    /\ today < MaxDay
    /\ today' = today + 1
    /\ UNCHANGED <<process, timer, userOf, runs, aggregates, contacts, version,
                   cache, reader>>
    /\ UNCHANGED <<syncVars, bulkVars, queueVars, serviceVars>>

InitAgg ==
    /\ BulkIdle /\ QueueIdle
    /\ ServiceIdle
    /\ now = 0
    /\ mailbox = <<>>
    /\ inbox = <<>>
    /\ connectors = {}
    /\ call = IdleCall
    /\ idem = HistoryOff
    /\ fetched = <<>>
    /\ messageRows = SetToBag(StoredMessages)
    /\ threadRows = SetToBag(StoredThreads)
    /\ process = "starting"
    /\ timer = FALSE
    /\ today = 1
    /\ userOf \in {[mbA |-> "u1", mbB |-> "u1", mbC |-> u] : u \in {"u2", NullUser}}
    /\ runs = <<>>
    /\ aggregates = EmptyBag
    /\ contacts = StoredContacts
    /\ version = 0
    /\ cache = <<>>
    /\ reader = <<>>

NextAgg ==
    \/ startBackgroundJobs
    \/ HourlyTick
    \/ \E r \in 1..MaxRuns, ok \in BOOLEAN : aggregateForOrganization(r, ok)
    \/ \E r \in 1..MaxRuns, ok \in BOOLEAN : clearAnalyticsCacheKeys(r, ok)
    \/ \E r \in 1..MaxRuns : clearAnalyticsCacheDel(r)
    \/ \E key \in CacheKeys : getOverviewAnalyticsCompute(key)
    \/ getOverviewAnalyticsStore
    \/ \E key \in CacheKeys : CacheExpire(key)
    \/ Midnight

SpecAgg == InitAgg /\ [][NextAgg]_vars

\* ---------------------------------------- the response-time statistics
\* One mailbox with up to MaxSample threads in the bucket, each with a
\* response time in minutes or with none; aggregateForMailbox is applied.
ResponseMinutes == {10, 20, 30, 40, 50}

SampleThread(k, minutes) ==
    [ id |-> k, threadId |-> k, organizationId |-> "org1", mailboxId |-> "mbA",
      messageCount |-> 2, lastMessageAt |-> 0,
      responseTime |-> IF minutes = Null THEN NoFraction ELSE Whole(minutes),
      isResolved |-> FALSE ]

\* aggregateForMailbox: the seven aggregates of one mailbox, upserted
aggregateForMailbox(mailboxId, org) ==
    /\ process = "up"
    /\ aggregates = EmptyBag
    /\ aggregates' = UpsertAggregates(aggregates,
                        AggregatesOf(messageRows, threadRows, contacts, mailboxId,
                                     userOf[mailboxId], org, today - 1))
    /\ UNCHANGED <<process, timer, today, userOf, runs, contacts, version, cache, reader>>
    /\ UNCHANGED <<syncVars, bulkVars, queueVars, serviceVars>>

InitStats ==
    /\ BulkIdle /\ QueueIdle
    /\ ServiceIdle
    /\ now = 0
    /\ mailbox = <<>>
    /\ inbox = <<>>
    /\ connectors = {}
    /\ call = IdleCall
    /\ idem = HistoryOff
    /\ fetched = <<>>
    /\ messageRows = EmptyBag
    /\ \E n \in 0..MaxSample :
         \E minutes \in [1..n -> ResponseMinutes \cup {Null}] :
            threadRows = SetToBag({SampleThread(k, minutes[k]) : k \in 1..n})
    /\ process = "up"
    /\ timer = TRUE
    /\ today = 1
    /\ userOf = [mbA |-> "u1"]
    /\ runs = <<>>
    /\ aggregates = EmptyBag
    /\ contacts = <<>>
    /\ version = 0
    /\ cache = <<>>
    /\ reader = <<>>

NextStats == aggregateForMailbox("mbA", "org1")

SpecStats == InitStats /\ [][NextStats]_vars

\* ------------------------------------------- two tenants in one Storage
\* Organization org1 with fixed rows beside an organization org2 whose
\* Message, Thread, Contact and Mailbox rows vary; the rows of org2 reuse
\* the e-mail address, the provider thread id and the user of org1.
TenantMessages ==
    { [ messageId |-> "a1", organizationId |-> "org1", mailboxId |-> "mbA",
        threadId |-> "t1", fromEmail |-> "a@x", toEmails |-> {"me@org1"},
        isSent |-> FALSE, timestamp |-> 0, sentiment |-> Null ],
      [ messageId |-> "a2", organizationId |-> "org1", mailboxId |-> "mbB",
        threadId |-> "t1", fromEmail |-> "a@x", toEmails |-> {"b@y"},
        isSent |-> TRUE, timestamp |-> 0, sentiment |-> 3 ] }

OtherMessages ==
    { [ messageId |-> "a1", organizationId |-> "org2", mailboxId |-> "mbC",
        threadId |-> "t1", fromEmail |-> "a@x", toEmails |-> {"me@org2"},
        isSent |-> TRUE, timestamp |-> 0, sentiment |-> 1 ],
      [ messageId |-> "a3", organizationId |-> "org2", mailboxId |-> "mbC",
        threadId |-> "th1", fromEmail |-> "b@y", toEmails |-> {"a@x"},
        isSent |-> FALSE, timestamp |-> 0, sentiment |-> Null ] }

OtherThreads ==
    { [ id |-> "th2", threadId |-> "t1", organizationId |-> "org2",
        mailboxId |-> "mbC", messageCount |-> 5, lastMessageAt |-> 0,
        responseTime |-> <<90, 1>>, isResolved |-> FALSE ] }

TenantContacts ==
    [ c1 |-> [ organizationId |-> "org1", email |-> "a@x", messageCount |-> 0,
               responseRate |-> <<0, 1>>, lastContactAt |-> Null ] ]

OtherContacts ==
    { <<>>,
      [ c2 |-> [ organizationId |-> "org2", email |-> "a@x", messageCount |-> 4,
                 responseRate |-> <<1, 2>>, lastContactAt |-> 0 ] ] }

\* aggregateForOrganization(org, yesterday), entire and without a failure
aggregateOrganization(org) ==
    /\ process = "up"
    /\ Len(runs) < MaxAggregations
    /\ LET date == today - 1
       IN  /\ aggregates' = aggregateForMailboxes(aggregates, messageRows, threadRows,
                                contacts, userOf, org, date, AggMailboxes[org])
           /\ contacts' = updateContactMetrics(contacts, messageRows, org, date)
           /\ threadRows' = updateThreadMetrics(threadRows, messageRows, org, date)
    /\ runs' = Append(runs, [organizationId |-> org])
    /\ UNCHANGED <<process, timer, today, userOf, version, cache, reader>>
    /\ UNCHANGED <<now, mailbox, inbox, messageRows, connectors, call, idem, fetched,
                   bulkVars, queueVars, serviceVars>>

InitTenants ==
    /\ BulkIdle /\ QueueIdle
    /\ ServiceIdle
    /\ now = 0
    /\ mailbox = <<>>
    /\ inbox = <<>>
    /\ connectors = {}
    /\ call = IdleCall
    /\ idem = HistoryOff
    /\ fetched = <<>>
    /\ \E other \in SUBSET OtherMessages :
          messageRows = SetToBag(TenantMessages \cup other)
    /\ \E other \in SUBSET OtherThreads :
          threadRows = SetToBag(StoredThreads \cup other)
    /\ \E other \in OtherContacts : contacts = TenantContacts @@ other
    /\ process = "up"
    /\ timer = TRUE
    /\ today = 1
    /\ userOf \in {[mbA |-> "u1", mbB |-> "u1", mbC |-> u] : u \in {"u1", "u2", NullUser}}
    /\ runs = <<>>
    /\ aggregates = EmptyBag
    /\ version = 0
    /\ cache = <<>>
    /\ reader = <<>>

NextTenants == \E i \in DOMAIN AggOrgs : aggregateOrganization(AggOrgs[i])

SpecTenants == InitTenants /\ [][NextTenants]_vars

\* ------------------------------------------------- performDailyCleanup
\* The retention sweep, followed over days: `today` is the time in days.  A
\* Mailbox row carries updatedAt, which every update of the row sets to the
\* time of the update, and (history) the day it became inactive.
MailboxRow(org, t) ==
    [ isActive |-> TRUE, lastSyncAt |-> t, organizationId |-> org,
      updatedAt |-> t, inactiveSince |-> Null ]

\* deleteMany where anything older than the cutoff goes, active or not
ExpiredWhateverActive(row, t) == row.updatedAt < t - RetentionDays

\* where: { isActive: false, updatedAt: { lt: cutoffDate } }
Expired(row, t) == ~row.isActive /\ row.updatedAt < t - RetentionDays

\* where: { date: { lt: analyticsCutoff } }
KeepSince(rows, cutoff) ==
    LET kept == {r \in BagToSet(rows) : r.date >= cutoff}
    IN  [r \in kept |-> CopiesIn(r, rows)]

CleanupUnchanged ==
    UNCHANGED <<now, inbox, messageRows, threadRows, connectors, call, idem, fetched,
                bulkVars, queueVars, serviceVars, process, timer, userOf, runs, contacts,
                version, cache, reader>>

\* a successful syncMailbox of an active mailbox: the lastSyncAt update
SyncedOn(mb) ==
    /\ mb \in DOMAIN mailbox /\ mailbox[mb].isActive
    /\ mailbox' = [mailbox EXCEPT ![mb].lastSyncAt = today, ![mb].updatedAt = today]
    /\ UNCHANGED <<today, aggregates>>
    /\ CleanupUnchanged

\* a syncMailbox that fails on authentication: the catch block's update
DeactivatedOn(mb) ==
    /\ mb \in DOMAIN mailbox /\ mailbox[mb].isActive
    /\ mailbox' = [mailbox EXCEPT ![mb].isActive = FALSE, ![mb].updatedAt = today,
                                  ![mb].inactiveSince = today]
    /\ UNCHANGED <<today, aggregates>>
    /\ CleanupUnchanged

\* (mutant) a token refresh whose update also sets isActive: true
refreshMailboxTokenReactivating(mb) ==
    /\ mb \in DOMAIN mailbox
    /\ mailbox' = [mailbox EXCEPT ![mb].updatedAt = today, ![mb].isActive = TRUE]
    /\ UNCHANGED <<today, aggregates>>
    /\ CleanupUnchanged

\* refreshMailboxToken with a cached connector: the token update
refreshMailboxToken(mb) ==
    /\ mb \in DOMAIN mailbox
    /\ mailbox' = [mailbox EXCEPT ![mb].updatedAt = today]
    /\ UNCHANGED <<today, aggregates>>
    /\ CleanupUnchanged

performDailyCleanup ==
    /\ mailbox' = [mb \in {m \in DOMAIN mailbox : ~Expired(mailbox[m], today)}
                     |-> mailbox[mb]]
    /\ aggregates' = KeepSince(aggregates, today - AggregateRetentionDays)
    /\ UNCHANGED today
    /\ CleanupUnchanged

DayPasses ==
    /\ today < MaxCleanupDay
    /\ today' = today + 1
    /\ UNCHANGED <<mailbox, aggregates>>
    /\ CleanupUnchanged

InitCleanup ==
    /\ BulkIdle /\ QueueIdle
    /\ ServiceIdle
    /\ now = 0
    /\ mailbox = [mb \in {"mb1"} |-> MailboxRow("org1", 0)]
    /\ inbox = <<>>
    /\ messageRows = EmptyBag
    /\ threadRows = EmptyBag
    /\ connectors = {}
    /\ call = IdleCall
    /\ idem = HistoryOff
    /\ fetched = <<>>
    /\ process = "starting"
    /\ timer = FALSE
    /\ today = 0
    /\ userOf = <<>>
    /\ runs = <<>>
    /\ aggregates = EmptyBag
    /\ contacts = <<>>
    /\ version = 0
    /\ cache = <<>>
    /\ reader = <<>>

NextCleanup ==
    \/ SyncedOn("mb1")
    \/ DeactivatedOn("mb1")
    \/ refreshMailboxToken("mb1")
    \/ performDailyCleanup
    \/ DayPasses

SpecCleanup == InitCleanup /\ [][NextCleanup]_vars

\* The operations of the ingestion service on one mailbox, from its creation
\* on: the syncs asked for one by one, the bulk sync of the cron schedule,
\* the token refresh and the daily cleanup.
syncAllActiveMailboxes(syncType) ==
    \E mb \in {m \in DOMAIN mailbox : mailbox[m].isActive} : SyncStart(mb, syncType)

InitLifecycle ==
    /\ now = 0
    /\ mailbox = [mb \in {"mb1"} |-> MailboxRow("org1", 0)]
    /\ inbox = [mb \in {"mb1"} |-> {}]
    /\ messageRows = EmptyBag
    /\ threadRows = EmptyBag
    /\ connectors = {}
    /\ call = IdleCall
    /\ idem = HistoryOff
    /\ fetched = [mb \in {"mb1"} |-> {}]
    /\ BulkIdle
    /\ QueueIdle
    /\ ServiceIdle
    /\ process = "starting"
    /\ timer = FALSE
    /\ today = 1
    /\ userOf = <<>>
    /\ runs = <<>>
    /\ aggregates = EmptyBag
    /\ contacts = <<>>
    /\ version = 0
    /\ cache = <<>>
    /\ reader = <<>>

NextLifecycle ==
    \/ NextSync
    \/ syncAllActiveMailboxes("incremental")
    \/ \E mb \in connectors : refreshMailboxToken(mb)
    \/ performDailyCleanup

SpecLifecycle == InitLifecycle /\ [][NextLifecycle]_vars

\* ------------------------------------------------------------ claims
\* how many rows of a bag carry one key
MessageKeyCount(messageId, org) ==
    LET hit == MessageHits(messageRows, messageId, org)
        RECURSIVE Sum(_)
        Sum(S) == IF S = {} THEN 0
                  ELSE LET r == CHOOSE x \in S : TRUE
                       IN  CopiesIn(r, messageRows) + Sum(S \ {r})
    IN  Sum(hit)

ThreadKeyCount(threadId, org) ==
    LET hit == ThreadHits(threadRows, threadId, org)
        RECURSIVE Sum(_)
        Sum(S) == IF S = {} THEN 0
                  ELSE LET r == CHOOSE x \in S : TRUE
                       IN  CopiesIn(r, threadRows) + Sum(S \ {r})
    IN  Sum(hit)

\* C1: after any sequence of syncMailbox runs, Storage holds at most one
\* Message row per (messageId, organizationId) and at most one Thread row per
\* (threadId, organizationId).
C1_UpsertNeverDuplicates ==
    /\ \A r \in BagToSet(messageRows) : MessageKeyCount(r.messageId, r.organizationId) = 1
    /\ \A r \in BagToSet(threadRows) : ThreadKeyCount(r.threadId, r.organizationId) = 1

\* C1 witness: a sync of mb2 has just upserted message m1 and its thread, and
\* the rows it hit are the ones a sync of mb1 had created in the same
\* organization (the update branch of both upserts ran).
C1_Witness ==
    /\ call.pc = "done" /\ call.outcome = "returned" /\ call.mailboxId = "mb2"
    /\ call.messagesProcessed = 1 /\ call.threadsProcessed = 1
    /\ mailbox["mb2"].organizationId = "org1"
    /\ \E r \in BagToSet(messageRows) :
         r.messageId = "m1" /\ r.organizationId = "org1" /\ r.mailboxId = "mb1"
    /\ \E r \in BagToSet(threadRows) :
         r.threadId = "t1" /\ r.organizationId = "org1" /\ r.mailboxId = "mb1"

\* C2 (as claimed): two syncs of one mailbox in succession, with no new
\* provider data and nothing else in between, return the same
\* messagesProcessed and leave the same Thread rows.  Stated for the most
\* favourable case: both runs in the same mode, started and ended at one and
\* the same clock value, and without a single failed upsert.
C2_SyncTwiceIdentical ==
    ( /\ idem.n = 2
      /\ idem.first.mode = idem.second.mode
      /\ idem.first.startedAt = idem.first.at
      /\ idem.first.at = idem.second.startedAt
      /\ idem.second.startedAt = idem.second.at
      /\ idem.first.failures = 0 /\ idem.second.failures = 0 )
    => /\ idem.first.messagesProcessed = idem.second.messagesProcessed
       /\ idem.first.threads = idem.second.threads

\* C3: when syncMailbox fails with an error whose message is classified as an
\* authentication/token failure, the mailbox is inactive when the caller gets
\* the error, and the caller does get that error.
C3_AuthErrorDeactivates ==
    (call.pc = "done" /\ call.error # NoError /\ IsAuthError(call.error))
    => /\ call.outcome = "thrown"
       /\ call.mailboxId \in DOMAIN mailbox => ~mailbox[call.mailboxId].isActive

\* C3 witness: the provider refused the credentials while listing, and the
\* caller has the error.
C3_Witness ==
    /\ call.pc = "done" /\ call.outcome = "thrown"
    /\ call.error = MkError(MsgNoRefreshToken, "auth")
    /\ call.mailboxId = "mb1" /\ ~mailbox["mb1"].isActive

\* C4 (as claimed): when syncMailbox fails for a reason that is not an
\* authentication failure (network, rate limit, at any step), the mailbox
\* stays active.
C4_OtherErrorKeepsActive ==
    (call.pc = "done" /\ call.outcome = "thrown" /\ call.error.cause # "auth"
        /\ call.mailboxId \in DOMAIN mailbox)
    => mailbox[call.mailboxId].isActive


\* C5: at no time are two syncMailbox executions for the same mailbox in
\* flight concurrently, whichever triggers started them (the hourly cron,
\* the six-hourly cron, the sync route).
C5_NoConcurrentSyncOfOneMailbox ==
    \A x \in exec, y \in exec : x.mailboxId = y.mailboxId => x = y

Listed(rec) == {rec.list[k] : k \in 1..Len(rec.list)}

\* C6: a bulk sync invokes syncMailbox at most once per mailbox and only for
\* mailboxes that were active when it listed them; once it is over it has
\* invoked it exactly once for each of them, whichever of them failed, and
\* it has returned rather than thrown.
C6_BulkSyncsEveryActiveMailboxOnce ==
    \A r \in Triggers :
        /\ \A m \in BulkMailboxes :
               run[r].invoked[m] <= (IF m \in Listed(run[r]) THEN 1 ELSE 0)
        /\ run[r].phase = "done" =>
               /\ run[r].outcome = "returned"
               /\ \A m \in Listed(run[r]) : run[r].invoked[m] = 1

\* C6 witness: a bulk sync of two batches is over, and the sync of the first
\* mailbox of its first batch had failed.
C6_Witness ==
    \E r \in Triggers :
        /\ run[r].phase = "done"
        /\ Len(run[r].list) > concurrency
        /\ run[r].firstFailed
        /\ run[r].batches = 2

\* C7: a bulk sync has at most 5 syncMailbox executions in flight, all of
\* them members of its current batch; while it waits before the next batch
\* nothing of it is in flight and a next batch exists; every batch but the
\* first was preceded by one delay, and no delay follows the last batch.
C7_BatchesOfFiveWithDelays ==
    \A r \in Triggers :
        LET rec == run[r]
            mine == {x.mailboxId : x \in ExecsOf(r)}
        IN  /\ Cardinality(ExecsOf(r)) <= 5
            /\ mine \subseteq {rec.list[k] : k \in
                                 {j \in 1..Len(rec.list) : rec.i < j /\ j <= rec.i + 5}}
            /\ rec.phase \in {"idle", "listing", "delay", "done"} => mine = {}
            /\ rec.phase = "delay" => rec.i + 5 < Len(rec.list)
            /\ rec.phase \in {"batch", "delay"} => rec.batches = rec.delays + 1
            /\ rec.phase = "done" /\ rec.list # <<>> =>
                   /\ rec.batches = rec.delays + 1
                   /\ rec.i + 5 >= Len(rec.list)

\* C7 witness: the second batch of a bulk sync is in flight, after one delay.
C7_Witness ==
    \E r \in Triggers :
        /\ run[r].phase = "batch"
        /\ run[r].i = concurrency
        /\ run[r].delays = 1
        /\ ExecsOf(r) # {}


\* C8: a job added with job type backfill, sync or refresh_token is, once a
\* worker has executed it, seen to have been dispatched to the handler of
\* that type, never to the unknown-job-type path.
C8_DispatchedToHandlerOfItsType ==
    \A id \in DOMAIN jobs :
        (jobs[id].name \in JobTypes /\ jobs[id].handler # "none")
            => jobs[id].handler = jobs[id].name

\* a job whose processor throws on every attempt, never retried by hand
AlwaysFailing(id) ==
    /\ id \in DOMAIN jobs
    /\ HandlerOf(jobs[id]) = "unknown"
    /\ jobs[id].retries = 0

ThreeAttempts(id) ==
    LET job == jobs[id]
    IN  /\ job.executions <= 3
        /\ job.state # "completed"
        /\ job.executions = 3 => job.state = "failed"
        /\ job.state = "failed" => job.executions = 3
        /\ Len(job.waits) <= 2
        /\ Len(job.waits) >= 1 => job.waits[1] = BackoffDelay
        /\ Len(job.waits) = 2 => job.waits[2] = 2 * job.waits[1]
        /\ job.state = "failed" => Len(job.waits) = 2

C10_RetryTouchesOnlyThatJob ==
    [][ (lastOp' # <<>> /\ lastOp'[1] = "retryFailedJob") =>
          LET jobId == lastOp'[2]
          IN  /\ DOMAIN jobs' = DOMAIN jobs
              /\ worker' = worker
              /\ \A other \in DOMAIN jobs \ {jobId} : jobs'[other] = jobs[other]
              /\ (jobId \in DOMAIN jobs /\ jobs[jobId].state = "failed") =>
                     /\ jobs'[jobId].state = "waiting"
                     /\ \E k \in DOMAIN waitq' : waitq'[k] = jobId
                     /\ SelectSeq(waitq', LAMBDA j : j # jobId) = waitq
              /\ jobId \notin DOMAIN jobs => jobs' = jobs /\ waitq' = waitq
      ]_vars

\* C10 witness: a failed job has just been retried and waits again, next to
\* another job that is in the failed set.
C10_Witness ==
    /\ lastOp # <<>>
    /\ lastOp[2] \in DOMAIN jobs
    /\ jobs[lastOp[2]].state = "waiting"
    /\ jobs[lastOp[2]].retries = 1
    /\ jobs[lastOp[2]].executions = 0
    /\ \E other \in DOMAIN jobs : jobs[other].state = "failed"


\* the order of the priority field: high before medium before low, an
\* unrecognised value as medium
Rank(priority) ==
    CASE priority = "high" -> 1
      [] priority = "low"  -> 3
      [] OTHER             -> 2

Before(q, a, b) ==
    \E i \in DOMAIN q, j \in DOMAIN q : i < j /\ q[i] = a /\ q[j] = b

Dequeued(id) == jobs[id].state = "waiting" /\ jobs'[id].state = "active"

Joins(id) ==
    /\ id \in DOMAIN jobs' /\ jobs'[id].state = "waiting"
    /\ id \in DOMAIN jobs => jobs[id].state # "waiting"

C12_RemainingOrganizationsAggregated ==
    \A r \in DOMAIN runs :
        runs[r].pc = "done" =>
            \A k \in DOMAIN AggOrgs :
                \/ AggOrgs[k] \in runs[r].aggregated
                \/ runs[r].outcome = "thrown" /\ k = runs[r].i + 1

\* C13: an aggregation run that fails entirely, eager or hourly, does not
\* terminate the process: whenever a run has thrown, the process is still up.
C13_FailedRunKeepsProcess ==
    (\E r \in DOMAIN runs : runs[r].outcome = "thrown") => process # "exited"


\* C14: running the aggregation twice for the same bucket date, one run
\* after the other, leaves every Contact's messageCount and responseRate
\* after the second run as they were after the first.
C14_SecondRunLeavesContacts ==
    \A k \in DOMAIN runs :
        ( /\ k + 1 \in DOMAIN runs
          /\ runs[k].pc = "done" /\ runs[k].outcome = "completed"
          /\ runs[k + 1].pc = "done" /\ runs[k + 1].outcome = "completed"
          /\ runs[k + 1].sequential
          /\ runs[k + 1].date = runs[k].date )
        => \A c \in DOMAIN contacts :
               /\ runs[k + 1].snap[c].messageCount = runs[k].snap[c].messageCount
               /\ runs[k + 1].snap[c].responseRate = runs[k].snap[c].responseRate

\* C15: once a run has ended, no cache entry under the analytics namespace
\* that was computed from the aggregates as they were before the run remains.
C15_NoStaleEntryAfterRun ==
    \A r \in DOMAIN runs :
        (runs[r].pc = "done" /\ runs[r].outcome = "completed")
        => \A key \in DOMAIN cache : cache[key] > runs[r].before

SameAggregateKey(a, b) ==
    /\ a.type = b.type
    /\ a.date = b.date
    /\ a.organizationId = b.organizationId
    /\ a.userId = b.userId

\* C16: there is at most one AnalyticsAggregate row per (type, date,
\* organizationId, userId), an absent userId included.
C16_OneRowPerKey ==
    \A a \in BagToSet(aggregates) :
        /\ CopiesIn(a, aggregates) = 1
        /\ \A b \in BagToSet(aggregates) : SameAggregateKey(a, b) => a = b


\* C17: syncMailbox on a mailbox with isActive = false returns
\* {messagesProcessed: 0, threadsProcessed: 0} without obtaining or calling
\* the Connector and without writing a Message row, a Thread row or a
\* Mailbox field.
C17_InactiveMailboxSkipped ==
    [][ ( /\ call.pc = "idle" /\ call'.pc # "idle"
          /\ call'.mailboxId \in DOMAIN mailbox
          /\ ~mailbox[call'.mailboxId].isActive )
        => ( /\ call'.pc = "done" /\ call'.outcome = "returned"
             /\ call'.messagesProcessed = 0 /\ call'.threadsProcessed = 0
             /\ call'.messages = <<>> /\ call'.days = 0
             /\ UNCHANGED <<connectors, fetched, messageRows, threadRows, mailbox>> )
      ]_vars

C17_Witness ==
    /\ call.pc = "done" /\ call.outcome = "returned"
    /\ call.mailboxId \in DOMAIN mailbox
    /\ ~mailbox[call.mailboxId].isActive
    /\ call.messagesProcessed = 0 /\ call.threadsProcessed = 0


\* max(1, ceil(elapsed / 1 day)), as the least whole number of days, at
\* least one, that covers the elapsed time
DaysCovering(elapsed) ==
    CHOOSE n \in 1..(MaxTime + 2) :
        /\ n * DayTicks >= elapsed
        /\ n = 1 \/ (n - 1) * DayTicks < elapsed

\* C18: the number of days syncMailbox requests from the Connector is 30 in
\* full mode whatever lastSyncAt is, and in incremental mode
\* max(1, ceil((now - lastSyncAt) / 1 day)), which is 1 when the mailbox has
\* no lastSyncAt.
C18_DaysRequested ==
    [][ (call.pc = "idle" /\ call'.pc = "process")
        => LET lastSyncAt == mailbox[call'.mailboxId].lastSyncAt
           IN  call'.days =
                 IF call'.syncType = "full" THEN 30
                 ELSE IF lastSyncAt = Null THEN 1
                 ELSE DaysCovering(now - lastSyncAt)
      ]_vars

C18_Witness ==
    /\ call.pc = "process"
    /\ call.syncType = "incremental"
    /\ mailbox[call.mailboxId].lastSyncAt # Null
    /\ now - mailbox[call.mailboxId].lastSyncAt = DayTicks + 1
    /\ call.startedAt = now
    /\ call.days = 2


\* C19: the fetch windows of the successive successful syncs of a mailbox
\* leave no gap: when an incremental sync has listed the provider's
\* messages, every message the provider timestamped before the listing has
\* been fetched, by this sync or by one before it.
C19_EveryMessageFetched ==
    (call.pc = "process" /\ call.syncType = "incremental")
    => \A g \in inbox[call.mailboxId] :
           g.internalDate < call.startedAt => g.id \in fetched[call.mailboxId]


\* the step by which an execution for mailbox mb returns a result
Returns(mb) ==
    /\ call.pc # "done" /\ call'.pc = "done"
    /\ call'.outcome = "returned" /\ call'.mailboxId = mb

\* the messages of the run that have a Message row
StoredOf(msgs, rows, org) ==
    {i \in DOMAIN msgs :
       \E row \in BagToSet(rows) :
          row.messageId = msgs[i].messageId /\ row.organizationId = org}

\* C20 as stated: syncMailbox sets lastSyncAt to the current time exactly
\* when it returns successfully; in every other step, a throw included,
\* lastSyncAt is left as it is.
C20_LastSyncAtExactlyOnReturn ==
    [][ \A mb \in DOMAIN mailbox :
          IF Returns(mb)
          THEN mailbox'[mb].lastSyncAt = now
          ELSE mailbox'[mb].lastSyncAt = mailbox[mb].lastSyncAt
      ]_vars

\* C20: syncMailbox sets lastSyncAt to the current time exactly when it
\* returns successfully from the sync of an active mailbox, the message and
\* thread upserts of the run being in the store by then; when it returns
\* for an inactive mailbox or throws, and in every other step, lastSyncAt is
\* left as it is.
C20_LastSyncAtOnSyncedReturn ==
    [][ \A mb \in DOMAIN mailbox :
          IF Returns(mb) /\ call.pc = "process"
          THEN /\ mailbox'[mb].lastSyncAt = now
               /\ Cardinality(StoredOf(call.messages, messageRows',
                                       mailbox[mb].organizationId))
                    >= call'.messagesProcessed
               /\ call'.messagesProcessed + call'.threadsProcessed + call'.failures
                    = Len(call.messages) + Cardinality(ThreadIdsOf(call.messages))
          ELSE mailbox'[mb].lastSyncAt = mailbox[mb].lastSyncAt
      ]_vars

C20_Witness ==
    /\ call.pc = "done" /\ call.outcome = "returned"
    /\ call.mailboxId \in DOMAIN mailbox
    /\ mailbox[call.mailboxId].isActive
    /\ call.messagesProcessed > 0
    /\ now > 0
    /\ mailbox[call.mailboxId].lastSyncAt = now


\* the Message row of its organization that holds what message m carries
HasRowOf(rows, m, org) ==
    \E row \in BagToSet(rows) :
        /\ row.messageId = m.messageId /\ row.organizationId = org
        /\ row.threadId = m.threadId
        /\ row.timestamp = m.timestamp
        /\ row.labels = m.labels
        /\ row.isSent = m.isSent /\ row.isRead = m.isRead

\* C21: if the upsert of some fetched messages fails during syncMailbox, the
\* remaining fetched messages are still upserted, the sync returns a result
\* and messagesProcessed is the number of fetched messages whose upsert
\* succeeded.
C21_FailedUpsertsSkipped ==
    [][ (call.pc = "process" /\ call'.pc = "done")
        => LET msgs == call.messages
               org == mailbox[call.mailboxId].organizationId
               succeeded == {i \in DOMAIN msgs : msgs[i].messageId \notin call'.failed}
           IN  /\ call'.outcome = "returned"
               /\ \A i \in succeeded : HasRowOf(messageRows', msgs[i], org)
               /\ call'.messagesProcessed = Cardinality(succeeded)
      ]_vars

C21_Witness ==
    /\ call.pc = "done" /\ call.outcome = "returned"
    /\ call.failed # {}
    /\ call.messagesProcessed > 0
    /\ \E row \in BagToSet(messageRows) :
          row.mailboxId = call.mailboxId /\ row.messageId \notin call.failed


\* C22: if the Connector cannot list or fetch the messages of the window,
\* syncMailbox writes no Message or Thread row, leaves lastSyncAt as it is
\* and propagates the Connector's error to its caller.
C22_ConnectorFailureAborts ==
    [][ ( /\ call.pc = "idle" /\ call'.pc = "done" /\ call'.days > 0
          /\ call'.error # MalformedError )
        => /\ call'.outcome = "thrown"
           /\ call'.error \in ProviderErrors
           /\ UNCHANGED <<messageRows, threadRows>>
           /\ mailbox'[call'.mailboxId].lastSyncAt = mailbox[call'.mailboxId].lastSyncAt
      ]_vars

C22_Witness ==
    /\ call.pc = "done" /\ call.outcome = "thrown"
    /\ call.days > 0
    /\ call.error \in ProviderErrors
    /\ call.error.cause = "rate_limit"
    /\ inbox[call.mailboxId] # {}
    /\ mailbox[call.mailboxId].lastSyncAt < now


\* C23: a single malformed provider message in a fetched batch is logged
\* and skipped and the sync of the mailbox does not abort: no execution of
\* syncMailbox ends by throwing what the malformed message made the parsing
\* throw.
C23_MalformedMessageSkipped ==
    (call.pc = "done" /\ call.error = MalformedError) => call.outcome = "returned"


\* the thread groups of a run, and a group in every order of arrival
GroupOf(msgs, tid) == {msgs[i] : i \in {j \in DOMAIN msgs : msgs[j].threadId = tid}}
Orders(group) == {[i \in DOMAIN group |-> group[p[i]]] : p \in Permutations(DOMAIN group)}
Latest(S) == CHOOSE t \in {m.timestamp : m \in S} : \A m \in S : m.timestamp <= t
Earliest(S) == CHOOSE t \in {m.timestamp : m \in S} : \A m \in S : t <= m.timestamp
ThreadRowOf(rows, tid, org) ==
    CHOOSE r \in BagToSet(rows) : r.threadId = tid /\ r.organizationId = org

\* C24: for every thread group of a sync, the upserted Thread has
\* messageCount = group size, lastMessageAt = the latest message timestamp
\* of the group and responseTime = null for a group of one message, else
\* the minutes between the earliest and the latest timestamp, in whatever
\* order the Connector returned the messages.
C24_ThreadFieldsOfGroup ==
    [][ (call.pc = "process" /\ call'.pc = "done")
        => LET msgs == call.messages
               org == mailbox[call.mailboxId].organizationId
           IN  \A tid \in ThreadIdsOf(msgs) \ call'.failedThreads :
                 LET members == GroupOf(msgs, tid)
                     row == ThreadRowOf(threadRows', tid, org)
                     expected ==
                         IF Cardinality(members) = 1 THEN Null
                         ELSE (Latest(members) - Earliest(members)) * MinutesPerTick
                 IN  /\ ThreadHits(threadRows', tid, org) # {}
                     /\ row.messageCount = Cardinality(members)
                     /\ row.lastMessageAt = Latest(members)
                     /\ row.responseTime = expected
                     /\ \A o \in Orders(ThreadGroup(msgs, tid)) :
                          LET f == ThreadFields(o, now)
                          IN  /\ f.messageCount = row.messageCount
                              /\ f.lastMessageAt = row.lastMessageAt
                              /\ f.responseTime = row.responseTime
      ]_vars

C24_Witness ==
    /\ call.pc = "done" /\ call.outcome = "returned"
    /\ call.threadsProcessed = 1
    /\ \E row \in BagToSet(threadRows) :
          /\ row.mailboxId = call.mailboxId
          /\ row.messageCount = 2
          /\ row.lastMessageAt = now
          /\ row.responseTime = 2 * MinutesPerTick


\* the messages of a group that carry its latest timestamp
LastOf(S) == {m \in S : m.timestamp = Latest(S)}

\* the chronologically last message was sent by the owner and more than 24
\* hours have elapsed since it
ResolvedRule(S, t) == (\E m \in LastOf(S) : m.isSent) /\ t - Latest(S) > DayTicks

\* C25 as stated: the resolved flag of a thread group is true if and only
\* if its chronologically last message was sent by the mailbox owner and
\* more than 24 hours have elapsed since it at sync time, in whatever order
\* the messages of the group were fetched.
C25_ResolvedWhateverOrder ==
    [][ (call.pc = "process" /\ call'.pc = "done")
        => \A tid \in ThreadIdsOf(call.messages) \ call'.failedThreads :
             \A o \in Orders(ThreadGroup(call.messages, tid)) :
                ThreadFields(o, now).isResolved
                  = ResolvedRule(GroupOf(call.messages, tid), now)
      ]_vars

\* C25: the resolved flag written for a thread whose latest timestamp is
\* carried by one message only (or by messages that agree in isSent) is
\* true if and only if that message was sent by the mailbox owner and more
\* than 24 hours have elapsed since it at sync time, in whatever order the
\* messages of the group were fetched.
C25_ResolvedOfLastMessage ==
    [][ (call.pc = "process" /\ call'.pc = "done")
        => LET msgs == call.messages
               org == mailbox[call.mailboxId].organizationId
           IN  \A tid \in ThreadIdsOf(msgs) \ call'.failedThreads :
                 LET members == GroupOf(msgs, tid)
                 IN  (\A m, n \in LastOf(members) : m.isSent = n.isSent)
                     => /\ ThreadRowOf(threadRows', tid, org).isResolved
                             = ResolvedRule(members, now)
                        /\ \A o \in Orders(ThreadGroup(msgs, tid)) :
                             ThreadFields(o, now).isResolved
                               = ResolvedRule(members, now)
      ]_vars

C25_Witness ==
    /\ call.pc = "done" /\ call.outcome = "returned"
    /\ call.failedThreads = {}
    /\ now - DayTicks > 0
    /\ \E row \in BagToSet(threadRows), sent, got \in BagToSet(messageRows) :
          /\ row.mailboxId = call.mailboxId
          /\ row.messageCount = 2
          /\ sent.threadId = row.threadId /\ got.threadId = row.threadId
          /\ sent.isSent /\ ~got.isSent
          /\ now - sent.timestamp > DayTicks
          /\ sent.timestamp < got.timestamp
          /\ row.lastMessageAt = got.timestamp
          /\ ~row.isResolved


\* C26: after syncMailbox, the messageCount and lastMessageAt of every
\* Thread it upserted reflect exactly the messages of that thread that the
\* same run upserted in its message step: a fetched message that was not
\* stored is not counted.
C26_ThreadReflectsStoredMessages ==
    [][ (call.pc = "process" /\ call'.pc = "done")
        => LET msgs == call.messages
               org == mailbox[call.mailboxId].organizationId
           IN  \A tid \in ThreadIdsOf(msgs) \ call'.failedThreads :
                 LET stored == {m \in GroupOf(msgs, tid) : m.messageId \notin call'.failed}
                     row == ThreadRowOf(threadRows', tid, org)
                 IN  /\ row.messageCount = Cardinality(stored)
                     /\ stored # {} => row.lastMessageAt = Latest(stored)
      ]_vars


\* C27: after an aggregation run, every Thread of the organization whose
\* lastMessageAt lies in the bucket has messageCount equal to the number of
\* Message rows of that organization that belong to the thread, matched by
\* the thread's provider thread id.
C27_ThreadCountsItsMessages ==
    \A r \in DOMAIN runs :
        (runs[r].pc = "done" /\ runs[r].outcome = "completed")
        => \A t \in BagToSet(threadRows) :
               InBucket(t.lastMessageAt, runs[r].date)
               => t.messageCount =
                    Cardinality({m \in BagToSet(messageRows) :
                                   /\ m.organizationId = t.organizationId
                                   /\ m.threadId = t.threadId})


SampleOf(threads) == {t \in BagToSet(threads) : t.responseTime # NoFraction}
AtIndex(sample, k) ==
    CHOOSE v \in {t.responseTime : t \in sample} :
        /\ Cardinality({t \in sample : FracLess(t.responseTime, v)}) <= k
        /\ Cardinality({t \in sample : ~FracLess(v, t.responseTime)}) > k
StoredValue(type) ==
    (CHOOSE a \in BagToSet(aggregates) : a.type = type).value

\* C29: for every non-empty sample of thread response times, the median is
\* sorted[floor(n / 2)] and the p90 is sorted[floor(0.9 * n)] of the sample
\* sorted ascending, the index lying inside the sample (for 10, 20, 30, 40,
\* 50: median 30 and p90 50); for an empty sample average, median and p90
\* are 0.
C29_MedianAndP90 ==
    aggregates # EmptyBag
    => LET sample == SampleOf(threadRows)
           n == Cardinality(sample)
       IN  IF n = 0
           THEN /\ StoredValue("RESPONSE_TIME_AVERAGE") = <<0, 1>>
                /\ StoredValue("RESPONSE_TIME_MEDIAN") = <<0, 1>>
                /\ StoredValue("RESPONSE_TIME_P90") = <<0, 1>>
           ELSE /\ n \div 2 < n /\ (9 * n) \div 10 < n
                /\ StoredValue("RESPONSE_TIME_MEDIAN") = AtIndex(sample, n \div 2)
                /\ StoredValue("RESPONSE_TIME_P90") = AtIndex(sample, (9 * n) \div 10)
                /\ {t.responseTime[1] : t \in sample} = {10, 20, 30, 40, 50} /\ n = 5
                   => /\ StoredValue("RESPONSE_TIME_MEDIAN") = <<30, 1>>
                      /\ StoredValue("RESPONSE_TIME_P90") = <<50, 1>>

C29_Witness ==
    /\ aggregates # EmptyBag
    /\ Cardinality(SampleOf(threadRows)) = 5
    /\ {t.responseTime : t \in SampleOf(threadRows)}
         = {<<10, 1>>, <<20, 1>>, <<30, 1>>, <<40, 1>>, <<50, 1>>}
    /\ StoredValue("RESPONSE_TIME_MEDIAN") = <<30, 1>>
    /\ StoredValue("RESPONSE_TIME_P90") = <<50, 1>>


\* the jobs the Workers of the QueueService are executing
Executing == UNION {workers[w].executing : w \in DOMAIN workers}

\* C30: at most 5 queue jobs are being executed at any time by one
\* QueueService, for any sequence of startWorker and stopWorker calls: a
\* startWorker call while the worker is started creates no additional
\* worker, and a stopWorker call when it is not started does nothing.
C30_AtMostFiveExecuting ==
    /\ [](Cardinality(Executing) <= 5)
    /\ [][ /\ (lastOp' = <<"startWorker">> /\ worker) => workers' = workers
           /\ (lastOp' = <<"stopWorker">> /\ ~worker)
                 => UNCHANGED <<workers, worker, stopping, jobs, waitq>> ]_vars

C30_Witness ==
    /\ Cardinality(Executing) = 5
    /\ waitq # <<>>
    /\ Len(workers) = 2
    /\ workers[1].state = "closed"
    /\ worker
    /\ lastOp = <<"startWorker">>


\* a syncMailbox execution ends with this step
SyncEnds == call.pc = "process" /\ call'.pc = "done"

\* C31 (as claimed): once a Message row has been written, a later syncMailbox
\* that fetches the same (messageId, organizationId) leaves its
\* non-enrichment fields (here timestamp, read and sent flags, labels)
\* unchanged, whatever the provider returns for the message.
C31_StoredFieldsImmutable ==
    [][ SyncEnds =>
          \A r \in BagToSet(messageRows) :
             \E q \in BagToSet(messageRows') :
                /\ q.messageId = r.messageId /\ q.organizationId = r.organizationId
                /\ q.timestamp = r.timestamp
                /\ q.isRead = r.isRead /\ q.isSent = r.isSent
                /\ q.labels = r.labels ]_vars

\* C40 (as claimed): a syncMailbox that fetches an already stored message
\* again does not change the sentiment, priority or category an enrichment
\* pass has stored on its row.
C40_EnrichmentKept ==
    [][ SyncEnds =>
          \A r \in BagToSet(messageRows) :
             r.sentiment # Null =>
                \E q \in BagToSet(messageRows') :
                   /\ q.messageId = r.messageId /\ q.organizationId = r.organizationId
                   /\ q.sentiment = r.sentiment
                   /\ q.priority = r.priority
                   /\ q.category = r.category ]_vars


\* the rows of one organization in a bag of rows and among the contacts
RowsOf(rows, org) ==
    LET own == {r \in BagToSet(rows) : r.organizationId = org}
    IN  [r \in own |-> CopiesIn(r, rows)]
ContactsOf(cts, org) ==
    [c \in {d \in DOMAIN cts : cts[d].organizationId = org} |-> cts[c]]
UsersOf(users, org) ==
    [mb \in {AggMailboxes[org][i] : i \in DOMAIN AggMailboxes[org]} |-> users[mb]]

\* C32: every aggregate and rollup value stored for organization A depends
\* only on the rows of A: what an aggregation of A writes for A in a Storage
\* that also holds Message, Thread, Contact and Mailbox rows of another
\* organization is what it writes in the Storage holding A's rows alone (so
\* two Storages that agree on A's rows get the same values), and an
\* aggregation of the other organization leaves A's values as they are.
C32_TenantIsolation ==
    [][ \A A \in {"org1"} :
          LET date == today - 1
              ran == runs'[Len(runs')].organizationId
          IN  IF ran = A
              THEN /\ RowsOf(aggregates', A)
                        = aggregateForMailboxes(RowsOf(aggregates, A),
                              RowsOf(messageRows, A), RowsOf(threadRows, A),
                              ContactsOf(contacts, A), UsersOf(userOf, A), A, date,
                              AggMailboxes[A])
                   /\ ContactsOf(contacts', A)
                        = updateContactMetrics(ContactsOf(contacts, A),
                              RowsOf(messageRows, A), A, date)
                   /\ RowsOf(threadRows', A)
                        = updateThreadMetrics(RowsOf(threadRows, A),
                              RowsOf(messageRows, A), A, date)
              ELSE /\ RowsOf(aggregates', A) = RowsOf(aggregates, A)
                   /\ ContactsOf(contacts', A) = ContactsOf(contacts, A)
                   /\ RowsOf(threadRows', A) = RowsOf(threadRows, A) ]_vars

\* C32 witness: org1 has been aggregated after org2 in a Storage that holds
\* every row of org2 the model knows, and its sentiment average is that of
\* its own message.
C32_Witness ==
    /\ Len(runs) = 2
    /\ runs[1].organizationId = "org2" /\ runs[2].organizationId = "org1"
    /\ OtherMessages \subseteq BagToSet(messageRows)
    /\ "c2" \in DOMAIN contacts
    /\ userOf["mbC"] = "u1"
    /\ \E a \in BagToSet(aggregates) :
         /\ a.type = "SENTIMENT_AVERAGE" /\ a.organizationId = "org1"
         /\ a.value = <<3, 1>>
    /\ \E a \in BagToSet(aggregates) : a.organizationId = "org2"


\* the provider message a parsed message was made of
ProviderMessage(m) == CHOOSE g \in inbox[call.mailboxId] : g.id = m.messageId

\* C33: for every fetched provider message the parsed isRead is true exactly
\* when its label set does not contain UNREAD and the parsed isSent exactly
\* when it contains SENT; two messages with the same label set get the same
\* flags, whatever their other fields and their place in the batch.
C33_FlagsFromLabels ==
    call.pc = "process"
    => /\ \A i \in DOMAIN call.messages :
            LET m == call.messages[i]
                g == ProviderMessage(m)
            IN  /\ m.isRead <=> "UNREAD" \notin g.labelIds
                /\ m.isSent <=> "SENT" \in g.labelIds
       /\ \A i, j \in DOMAIN call.messages :
            ProviderMessage(call.messages[i]).labelIds
               = ProviderMessage(call.messages[j]).labelIds
            => /\ call.messages[i].isRead = call.messages[j].isRead
               /\ call.messages[i].isSent = call.messages[j].isSent

\* C33 witness: two messages of different threads with the labels UNREAD
\* and SENT have been parsed: both unread, both sent.
C33_Witness ==
    /\ call.pc = "process"
    /\ Len(call.messages) = 2
    /\ call.messages[1].threadId # call.messages[2].threadId
    /\ \A i \in 1..2 :
         /\ call.messages[i].labels = {"UNREAD", "SENT"}
         /\ ~call.messages[i].isRead /\ call.messages[i].isSent


\* C34 (as claimed): if the process-wide encryption key is absent or
\* malformed, the service fails at startup, before any request is served or
\* any sync attempted; the condition never first surfaces as an error of an
\* individual addMailbox, syncMailbox or refreshMailboxToken call.
C34_KeyFailsAtStartup ==
    env.ENCRYPTION_KEY # "valid"
    => /\ server # "listening"
       /\ request.op = "none"
       /\ request.error # KeyError

\* the step is a syncMailbox call for mailbox mb
SyncCallOf(mb) ==
    /\ request'.op = "syncMailbox" /\ request'.mailboxId = mb
    /\ uses'[mb].syncs = uses[mb].syncs + 1

\* C35: within one process, once a Connector has been initialized for a
\* mailbox (by addMailbox or by a first syncMailbox), every later sequential
\* syncMailbox for it reuses the cached instance: the credentials are
\* decrypted and a Connector initialized at most once per mailbox, and a
\* failed initialization caches nothing.
C35_ConnectorInitializedOnce ==
    /\ [](\A mb \in DOMAIN uses : uses[mb].decrypts <= 1 /\ uses[mb].inits <= 1)
    /\ [][ /\ \A mb \in MailboxIds :
                SyncCallOf(mb) /\ mb \in connectors
                => /\ uses'[mb].decrypts = uses[mb].decrypts
                   /\ uses'[mb].inits = uses[mb].inits
                   /\ mb \in connectors'
           /\ \A mb \in MailboxIds :
                SyncCallOf(mb) /\ request'.error = InitError("auth")
                => mb \notin connectors'
           /\ (request'.op = "addMailbox" /\ request'.error.cause = "init")
                => connectors' = connectors ]_vars

\* C35 witness: the mailbox of an earlier process has been synced twice; the
\* first sync decrypted its credentials and initialized the Connector, the
\* second found it cached.
C35_Witness ==
    /\ "mb1" \in connectors
    /\ uses["mb1"] = [decrypts |-> 1, inits |-> 1, syncs |-> 2]
    /\ request.op = "syncMailbox" /\ request.outcome = "returned"

\* C37 (as claimed): addMailbox is all-or-nothing: whenever it throws, no
\* Mailbox row has been created and no Connector is cached for it; whenever
\* it returns, a Mailbox row exists and exactly one high-priority backfill
\* job for that mailbox has been enqueued.
C37_AddMailboxAllOrNothing ==
    [][ request'.op = "addMailbox" =>
          IF request'.outcome = "thrown"
          THEN mailbox' = mailbox /\ connectors' = connectors
          ELSE /\ request'.mailboxId \in DOMAIN mailbox'
               /\ Cardinality({j \in DOMAIN jobs' :
                     /\ jobs'[j].name = "backfill"
                     /\ jobs'[j].data.mailboxId = request'.mailboxId
                     /\ jobs'[j].data.priority = "high"}) = 1 ]_vars


\* C38 (as claimed): at most one aggregation run of an AggregationService is
\* in progress at any time: an hourly tick never starts a run while a
\* previous run, the eager start-up run included, is still executing.
C38_AtMostOneRun ==
    Cardinality({r \in DOMAIN runs : runs[r].pc # "done"}) <= 1


\* the mailboxes of a user in an organization, in the order of the loop
MailboxesOfUser(org, u) ==
    {i \in DOMAIN AggMailboxes[org] : userOf[AggMailboxes[org][i]] = u}

\* C36: when a user owns more than one mailbox in an organization, every
\* per-mailbox aggregation of a run writes to the same (type, date,
\* organizationId, userId) row, so after the run each such row holds the
\* value computed for the last of that user's mailboxes to be processed, not
\* a value combined over the user's mailboxes.
C36_LastMailboxWins ==
    [][ LET org == runs'[Len(runs')].organizationId
            date == today - 1
        IN  \A u \in {userOf[AggMailboxes[org][i]] : i \in DOMAIN AggMailboxes[org]} :
              (u # NullUser /\ Cardinality(MailboxesOfUser(org, u)) > 1)
              => LET k == CHOOSE i \in MailboxesOfUser(org, u) :
                             \A j \in MailboxesOfUser(org, u) : j <= i
                     computed == AggregatesOf(messageRows, threadRows, contacts,
                                              AggMailboxes[org][k], u, org, date)
                 IN  \A t \in DOMAIN computed :
                        LET hit == AggregateHits(aggregates', computed[t].type, date, org, u)
                        IN  /\ Cardinality(hit) = 1
                            /\ \A r \in hit : /\ CopiesIn(r, aggregates') = 1
                                              /\ r.value = computed[t].value ]_vars

\* C36 witness: user u1 owns mbA, holding one received message of the day,
\* and mbB, holding none; after the run the user's EMAIL_VOLUME_RECEIVED row
\* is 0, the count of mbB.
C36_Witness ==
    /\ runs # <<>> /\ runs[Len(runs)].organizationId = "org1"
    /\ userOf["mbA"] = "u1" /\ userOf["mbB"] = "u1"
    /\ CountOfMailbox(messageRows, "mbA", "org1", today - 1, FALSE) = 1
    /\ CountOfMailbox(messageRows, "mbB", "org1", today - 1, FALSE) = 0
    /\ \A r \in AggregateHits(aggregates, "EMAIL_VOLUME_RECEIVED", today - 1, "org1", "u1") :
          r.value = <<0, 1>>
    /\ AggregateHits(aggregates, "EMAIL_VOLUME_RECEIVED", today - 1, "org1", "u1") # {}


\* C39: no operation of the ingestion service (syncMailbox,
\* syncAllActiveMailboxes, refreshMailboxToken, performDailyCleanup) turns a
\* mailbox's isActive from false to true, and once a mailbox is inactive no
\* sync of it lists or fetches from the provider, obtains a Connector or
\* writes a Message or Thread row.
C39_DeactivationIsFinal ==
    [][ \A mb \in DOMAIN mailbox :
          ~mailbox[mb].isActive =>
            /\ mb \in DOMAIN mailbox' => ~mailbox'[mb].isActive
            /\ ( call.pc = "idle" /\ call'.pc # "idle" /\ call'.mailboxId = mb )
                 => ( call'.pc = "done" /\ call'.outcome = "returned"
                      /\ call'.messages = <<>> )
            /\ fetched'[mb] = fetched[mb]
            /\ connectors' = connectors
            /\ messageRows' = messageRows
            /\ threadRows' = threadRows
      ]_vars

\* a mailbox that synced, was deactivated, had its token refreshed and was
\* asked to sync again
C39_Witness ==
    /\ "mb1" \in DOMAIN mailbox /\ ~mailbox["mb1"].isActive
    /\ mailbox["mb1"].updatedAt = today
    /\ "mb1" \in connectors
    /\ messageRows # EmptyBag
    /\ \E g \in inbox["mb1"] : g.id \notin fetched["mb1"]
    /\ call.pc = "done" /\ call.outcome = "returned" /\ call.mailboxId = "mb1"
====
